---- MODULE Spec2Model ----
(***************************************************************************)
(* Model of the LoRaWAN session layer of the RAK3172 driver                *)
(* (src/src/Protocols/LoRaWAN/rak3172_lorawan.cpp) on top of the command   *)
(* engine RAK3172_SendCommand and the UART line receiver.  The command     *)
(* engine and the line receiver live outside these sources and follow the  *)
(* design text (sections 4.1 and 4.2).                                     *)
(*                                                                         *)
(* Spec        one caller context, the line receiver and the module.       *)
(* SpecFair    Transmit on a joined device, with a fair caller task.       *)
(* SpecFlight  two caller contexts sharing one device (single flight).     *)
(***************************************************************************)
EXTENDS Integers, Sequences, FiniteSets, TLC

(***************************************************************************)
(* Bounds of the model.                                                    *)
(***************************************************************************)
MaxTimeout == 2
MaxQueue == 2
MaxLines == 3
MaxUptimeHi == 1
MaxIter == 2
MaxLength == 1
\* Commands and replies on the wire at once.
MaxFlight == 2
\* Bytes in a buffer to encode.
MaxBytes == 2
TickPeriodMs == 10

(***************************************************************************)
(* Program constants.                                                      *)
(***************************************************************************)
RAK3172_WAIT_TIMEOUT == 500
UINT8_MAX == 255
LightSleepMs == 20
TaskDelayTicks == 20
MsPerSecond == 1000

RAK3172_ERR_OK == "OK"
RAK3172_ERR_INVALID_ARG == "INVALID_ARG"
RAK3172_ERR_INVALID_STATE == "INVALID_STATE"
RAK3172_ERR_NOT_CONNECTED == "NOT_CONNECTED"
RAK3172_ERR_INVALID_RESPONSE == "INVALID_RESPONSE"
RAK3172_ERR_TIMEOUT == "TIMEOUT"
RAK3172_ERR_FAIL == "FAIL"

\* RAK3172_JoinMode_t
RAK_JOIN_ABP == 0
RAK_JOIN_OTAA == 1

\* RAK3172_Band_t
RAK_BAND_EU433 == 0
RAK_BAND_CN470 == 1
RAK_BAND_RU864 == 2
RAK_BAND_IN865 == 3
RAK_BAND_EU868 == 4
RAK_BAND_US915 == 5
RAK_BAND_AU915 == 6
RAK_BAND_KR920 == 7
RAK_BAND_AS923 == 8
Bands == RAK_BAND_EU433..RAK_BAND_AS923

\* RAK3172_SubBand_t
RAK_SUB_BAND_NONE == 0
RAK_SUB_BAND_ALL == 1
RAK_SUB_BAND_1 == 2
RAK_SUB_BAND_9 == 10
RAK_SUB_BAND_12 == 13
SubBands == RAK_SUB_BAND_NONE..RAK_SUB_BAND_12

\* "0000"
MASK_ALL == <<"0", "0", "0", "0">>

\* Abnormal ends of a call: a C++ exception leaving the function, or the
\* process being aborted after undefined behaviour.
EXCEPTION == "EXCEPTION"
ABORT == "ABORT"
NONE == "NONE"

(***************************************************************************)
(* Text.  A std::string is a sequence of characters; positions are         *)
(* 0-based as in C++, npos is -1.                                          *)
(***************************************************************************)
npos == -1

Min(a, b) == IF a <= b THEN a ELSE b

\* std::string::find(m, from): first position >= from where m occurs.
Find(s, m, from) ==
    LET hits == {i \in from .. (Len(s) - Len(m)) :
                    SubSeq(s, i + 1, i + Len(m)) = m}
    IN  IF from < 0 \/ hits = {} THEN npos
        ELSE CHOOSE i \in hits : \A j \in hits : i <= j

\* Line->find(m) != std::string::npos
Contains(s, m) == Find(s, m, 0) # npos

\* std::string::find_last_of(c), for a one-character set.
FindLastOf(s, c) ==
    LET hits == {i \in 0 .. (Len(s) - 1) : s[i + 1] = c}
    IN  IF hits = {} THEN npos
        ELSE CHOOSE i \in hits : \A j \in hits : j <= i

EVT_JOINED == <<"+","E","V","T",":","J","O","I","N","E","D">>
EVT_CONFIRMED_OK ==
    <<"+","E","V","T",":","S","E","N","D"," ",
      "C","O","N","F","I","R","M","E","D"," ","O","K">>
EVT_CONFIRMED_FAILED ==
    <<"+","E","V","T",":","S","E","N","D"," ",
      "C","O","N","F","I","R","M","E","D"," ","F","A","I","L","E","D">>

SEND_CONFIRMED_FAILED ==
    <<"S","E","N","D"," ","C","O","N","F","I","R","M","E","D"," ",
      "F","A","I","L","E","D">>
SEND_CONFIRMED_OK ==
    <<"S","E","N","D"," ","C","O","N","F","I","R","M","E","D"," ","O","K">>

STATUS_OK == <<"O","K">>
STATUS_BUSY == <<"A","T","_","B","U","S","Y","_","E","R","R","O","R">>
AT_BUSY_ERROR == <<"A","T","_","B","U","S","Y","_","E","R","R","O","R">>

\* The unsolicited lines the module emits in this model.
\* "+EVT:RX_1, RSSI -70, SNR 8" and "+EVT:UNICAST:4865"
EVT_RX ==
    <<"+","E","V","T",":","R","X","_","1",","," ","R","S","S","I"," ",
      "-","7","0",","," ","S","N","R"," ","8">>
EVT_UNICAST ==
    <<"+","E","V","T",":","U","N","I","C","A","S","T",":","4","8","6","5">>

\* The lines of the parsing example of the interface description:
\* "+EVT:RX:-42,10,RSSI -60,SNR 7" and "+EVT:UNICAST:48656C6C6F"
EVT_RX_META ==
    <<"+","E","V","T",":","R","X",":","-","4","2",",","1","0",",",
      "R","S","S","I"," ","-","6","0",",","S","N","R"," ","7">>
EVT_UNICAST_HELLO ==
    <<"+","E","V","T",":","U","N","I","C","A","S","T",":",
      "4","8","6","5","6","C","6","C","6","F">>

MARK_RX == <<"R","X">>
MARK_UNICAST == <<"U","N","I","C","A","S","T">>

EventLines == {EVT_JOINED, EVT_CONFIRMED_OK, EVT_CONFIRMED_FAILED,
               EVT_RX, EVT_UNICAST}

(***************************************************************************)
(* Time.  esp_timer_get_time() / 1000ULL is a 64-bit millisecond uptime.   *)
(* A 64-bit value is kept as two 32-bit limbs [hi, lo].  The waits store   *)
(* the start in a uint32_t, which drops the high limb, and subtract that   *)
(* from the 64-bit clock:                                                  *)
(*    now64 - (uint32_t)start64 = hi(start64) * 2^32 + elapsed             *)
(* so the difference has the high limb of the uptime at the start of the   *)
(* wait (startHi) and, as low limb, the milliseconds elapsed since.        *)
(***************************************************************************)
W16 == 2^16

Hi32(x) == (x \div W16) \div W16
Lo32(x) == x - Hi32(x) * W16 * W16

\* a >= b for 64-bit values given as limbs.
GE64(aHi, aLo, bHi, bLo) == aHi > bHi \/ (aHi = bHi /\ aLo >= bLo)

\* One pass through esp_light_sleep_start() (20 ms) and vTaskDelay(20).
SleepMs == LightSleepMs + TaskDelayTicks * TickPeriodMs

\* elapsed is compared with the threshold Timeout * 1000 of the call only,
\* so it saturates there.
Advance(e, d, Timeout) == Min(e + d, Timeout * MsPerSecond)

Bump(n) == Min(n + 1, MaxIter)


\* std::string::substr(pos, n); n < 0 stands for a count that wrapped to a
\* huge size_t.  pos > size() throws std::out_of_range.
Substr(s, pos, n) ==
    IF pos < 0 \/ pos > Len(s) THEN [ok |-> FALSE, val |-> <<>>]
    ELSE LET cnt == IF n < 0 THEN Len(s) - pos ELSE Min(n, Len(s) - pos)
         IN  [ok |-> TRUE, val |-> SubSeq(s, pos + 1, pos + cnt)]

Digits == <<"0","1","2","3","4","5","6","7","8","9">>
IsDigit(c) == \E d \in 1..10 : Digits[d] = c
DigitVal(c) == (CHOOSE d \in 1..10 : Digits[d] = c) - 1

RECURSIVE SkipSpaces(_, _)
SkipSpaces(s, i) ==
    IF i <= Len(s) /\ s[i] = " " THEN SkipSpaces(s, i + 1) ELSE i

RECURSIVE DigitsValue(_, _, _)
DigitsValue(s, i, acc) ==
    IF i <= Len(s) /\ IsDigit(s[i])
    THEN DigitsValue(s, i + 1, acc * 10 + DigitVal(s[i]))
    ELSE acc

\* std::stoi(s): leading white space, an optional sign, decimal digits;
\* throws std::invalid_argument when there is no digit.
Stoi(s) ==
    LET i == SkipSpaces(s, 1)
        signed == i <= Len(s) /\ s[i] \in {"-", "+"}
        j == IF signed THEN i + 1 ELSE i
        v == DigitsValue(s, j, 0)
    IN  IF j <= Len(s) /\ IsDigit(s[j])
        THEN [ok |-> TRUE, val |-> IF signed /\ s[i] = "-" THEN 0 - v ELSE v]
        ELSE [ok |-> FALSE, val |-> 0]

(***************************************************************************)
(* State.                                                                  *)
(***************************************************************************)
VARIABLES
    pc,            \* position of the caller context
    op,            \* the operation being called
    arg,           \* its arguments
    result,        \* its return value, NONE while it runs
    isJoined,      \* p_Device->LoRaWAN.isJoined
    isBusy,        \* p_Device->Internal.isBusy
    modJoining,    \* the module is running a join attempt
    RxQueue,       \* p_Device->Internal.RxQueue: the event lines not yet read
    sent,          \* commands written to the transport by this call
    consumed,      \* event lines this call took from RxQueue, in order
    linePtr,       \* the local std::string* Line of the polling loops
    unreleased,    \* lines this call took and has not deleted
    startHi,       \* high limb of the uptime when the wait began
    elapsed,       \* milliseconds since the wait began
    iters,         \* polling iterations of this call
    hookCalls,     \* invocations of the caller's wait hook in this call
    out,           \* values written through the output pointers
    ubRead,        \* the call read through a NULL payload pointer
    ubFree,        \* the call deleted a pointer it did not own
    fpc,           \* SpecFlight: position of each caller context
    fstep,         \* SpecFlight: index of each caller in its command list
    uart,          \* SpecFlight: commands written, not yet answered
    modOut,        \* SpecFlight: reply lines not yet read by the receiver
    fres,          \* SpecFlight: result handed to each caller
    wrongDelivery, \* SpecFlight: a reply reached a caller that did not ask
    Join,          \* p_Device->LoRaWAN.Join
    modBand,       \* the band the module is set to
    modMask,       \* the channel mask the module is set to
    lastSub        \* the sub band of the last accepted AT+MASK (history)

callV == <<op, arg>>
devV == <<isJoined, isBusy>>
timeV == <<startHi, elapsed>>
loopV == <<iters, hookCalls>>
lineV == <<consumed, linePtr, unreleased>>
ubV == <<ubRead, ubFree>>
flightV == <<fpc, fstep, uart, modOut, fres, wrongDelivery>>
cfgV == <<Join, modBand, modMask, lastSub>>

vars == <<pc, op, arg, result, isJoined, isBusy, modJoining, RxQueue,
          sent, consumed, linePtr, unreleased, startHi, elapsed, iters,
          hookCalls, out, ubRead, ubFree, fpc, fstep, uart, modOut, fres,
          wrongDelivery, Join, modBand, modMask, lastSub>>

(***************************************************************************)
(* Commands and the command engine as one caller sees it (design text      *)
(* 4.2): the command is written to the transport and the call ends with    *)
(* OK, with an invalid-response error or with a timeout.                   *)
(***************************************************************************)
Cmd(name, par) == [name |-> name, par |-> par]

BoolStr(b) == IF b THEN 1 ELSE 0

\* "AT+JOIN=1:" + EnableAutoJoin + ":" + Interval + ":" + Attempts
JoinCmd(a) == Cmd("AT+JOIN", <<1, BoolStr(a.AutoJoin), a.Interval, a.Attempts>>)
\* "AT+JOIN=0:0:7:0"
CancelJoinCmd == Cmd("AT+JOIN", <<0, 0, 7, 0>>)
CfmCmd(enable) == Cmd("AT+CFM", <<BoolStr(enable)>>)
SendCmd(a) == Cmd("AT+SEND", <<a.Port, a.Length>>)
NjsQuery == Cmd("AT+NJS=?", <<>>)

SendResults ==
    {RAK3172_ERR_OK, RAK3172_ERR_INVALID_RESPONSE, RAK3172_ERR_TIMEOUT}

\* The status text of an accepted AT+SEND.
StatusTexts == {STATUS_OK, STATUS_BUSY}

\* The values the module reports for AT+NJS=?.
NjsValues == {<<"0">>, <<"1">>, <<"1", "0">>}

Issued(c, r) == [cmd |-> c, res |-> r, status |-> <<>>, value |-> <<>>]

\* A query: the value is captured only when the command succeeded.
Queried(c, r, v) ==
    [cmd |-> c, res |-> r, status |-> <<>>,
     value |-> IF r = RAK3172_ERR_OK THEN v ELSE <<>>]

\* The module starts a join attempt on an accepted AT+JOIN=1 and drops it on
\* an accepted AT+JOIN=0.
ModuleJoining(c, r, joining) ==
    IF r # RAK3172_ERR_OK \/ c.name # "AT+JOIN" THEN joining
    ELSE c.par[1] = 1

(***************************************************************************)
(* Calls.                                                                  *)
(***************************************************************************)
Ops == {"StartJoin", "StopJoin", "IsJoined", "Transmit", "Receive"}

NoArg == [Timeout |-> 0, Attempts |-> 1, AutoJoin |-> FALSE, Interval |-> 10,
          Wait |-> FALSE,
          Port |-> 1, BufNull |-> FALSE, Length |-> 0, Confirmed |-> FALSE,
          OutNull |-> FALSE, WantRSSI |-> FALSE, WantSNR |-> FALSE,
          Subband |-> RAK_SUB_BAND_NONE, TxPwr |-> 0, Retries |-> 0,
          JoinMode |-> RAK_JOIN_OTAA, Band |-> RAK_BAND_EU868, Class |-> "A",
          UseADR |-> TRUE, DevNull |-> FALSE, KeyNull |-> 0,
          Bytes |-> <<>>]

\* Byte buffers to encode: every single byte, and the buffers of up to
\* MaxBytes bytes over a few values with and without letter digits.
ByteSamples == {0, 9, 10, 171, 255}

RECURSIVE SeqsUpTo(_, _)
SeqsUpTo(S, n) ==
    IF n = 0 THEN {<<>>}
    ELSE LET shorter == SeqsUpTo(S, n - 1)
         IN  shorter \cup {Append(q, x) : q \in shorter, x \in S}

ByteSeqs == SeqsUpTo(ByteSamples, MaxBytes) \cup {<<b>> : b \in 0..UINT8_MAX}

\* The encoding loops of the key setters, of the P2P encryption key and of
\* Transmit.
EncodeOps == {"OTAAKeys", "ABPKeys", "P2PKey", "Payload"}

\* Retry counts on both sides of the limit of 7.
RetriesArgs == {0, 3, 8}

\* Arguments of RAK3172_LoRaWAN_Init: the valid ones, and one call for each
\* way the argument test can fail.
InitArgs ==
    {[NoArg EXCEPT !.Class = c, !.Retries = n, !.JoinMode = j, !.Band = b,
                   !.Subband = sb, !.TxPwr = 14] :
        c \in {"A", "C"}, n \in RetriesArgs,
        j \in {RAK_JOIN_ABP, RAK_JOIN_OTAA},
        b \in {RAK_BAND_EU868, RAK_BAND_US915},
        sb \in {RAK_SUB_BAND_NONE, RAK_SUB_BAND_1, RAK_SUB_BAND_12}}
    \cup {[NoArg EXCEPT !.Class = "Z"], [NoArg EXCEPT !.DevNull = TRUE]}
    \cup {[NoArg EXCEPT !.KeyNull = k] : k \in 1..3}

ArgsOf(o) ==
    CASE o = "StartJoin" ->
            {[NoArg EXCEPT !.Timeout = t, !.Attempts = a, !.Wait = w] :
                t \in 0..MaxTimeout, a \in 0..1, w \in BOOLEAN}
      [] o = "Transmit" ->
            {[NoArg EXCEPT !.Timeout = t, !.Port = p, !.BufNull = n,
                           !.Length = l, !.Confirmed = c, !.Wait = w] :
                t \in 0..MaxTimeout, p \in 0..1, n \in BOOLEAN,
                l \in 0..MaxLength, c \in BOOLEAN, w \in BOOLEAN}
      [] o = "Receive" ->
            {[NoArg EXCEPT !.Timeout = t, !.OutNull = n,
                           !.WantRSSI = r, !.WantSNR = r] :
                t \in 0..MaxTimeout, n \in BOOLEAN, r \in BOOLEAN}
      [] o = "IsJoined" -> {[NoArg EXCEPT !.OutNull = n] : n \in BOOLEAN}
      [] o = "SetSubBand" ->
            {[NoArg EXCEPT !.Subband = b] : b \in SubBands}
      [] o = "GetSubBand" -> {[NoArg EXCEPT !.OutNull = n] : n \in BOOLEAN}
      [] o = "SetTxPwr" -> {[NoArg EXCEPT !.TxPwr = p] : p \in 0..UINT8_MAX}
      [] o = "SetRetries" -> {[NoArg EXCEPT !.Retries = n] : n \in RetriesArgs}
      [] o \in {"SetOTAAKeys", "SetABPKeys"} ->
            {[NoArg EXCEPT !.DevNull = d, !.KeyNull = k] :
                d \in BOOLEAN, k \in 0..3}
      [] o = "Init" -> InitArgs
      [] o \in EncodeOps -> {[NoArg EXCEPT !.Bytes = b] : b \in ByteSeqs}
      [] OTHER -> {NoArg}

EntryPc(o) ==
    CASE o = "StartJoin" -> "sj_entry"
      [] o = "StopJoin" -> "stop_entry"
      [] o = "IsJoined" -> "ij_entry"
      [] o = "Transmit" -> "tx_entry"
      [] o = "Receive" -> "rx_entry"
      [] o = "SetSubBand" -> "ssb_entry"
      [] o = "GetSubBand" -> "gsb_entry"
      [] o = "SetTxPwr" -> "stp_band"
      [] o = "GetDuty" -> "gd_band"
      [] o = "SetRetries" -> "sr_entry"
      [] o = "SetOTAAKeys" -> "otaa_entry"
      [] o = "SetABPKeys" -> "abp_entry"
      [] o = "Init" -> "in_entry"
      [] o \in EncodeOps -> "encode"

NoOut == [Payload |-> <<>>, RSSI |-> <<>>, SNR |-> <<>>, Joined |-> <<>>,
          SubBand |-> <<>>, Duty |-> <<>>, Hex |-> <<>>]

Idle == pc \in {"idle", "done"}

\* A caller context enters one of the operations os.
CallOf(os) ==
    /\ pc = "idle"
    /\ \E o \in os : \E a \in ArgsOf(o) :
          /\ op' = o
          /\ arg' = a
          /\ pc' = EntryPc(o)
    /\ UNCHANGED <<result, devV, modJoining, RxQueue, sent, lineV, timeV,
                   loopV, out, ubV, flightV, cfgV>>

Call == CallOf(Ops)

\* The call has returned; its locals and outputs are gone.
Finish ==
    /\ pc = "done"
    /\ pc' = "idle"
    /\ op' = "none"
    /\ arg' = NoArg
    /\ result' = NONE
    /\ sent' = <<>>
    /\ consumed' = <<>>
    /\ linePtr' = "indeterminate"
    /\ unreleased' = 0
    /\ elapsed' = 0
    /\ iters' = 0
    /\ hookCalls' = 0
    /\ out' = NoOut
    /\ ubRead' = FALSE
    /\ ubFree' = FALSE
    /\ UNCHANGED <<devV, modJoining, RxQueue, startHi, flightV, cfgV>>

Return(r) == pc' = "done" /\ result' = r

Goto(l) == pc' = l /\ result' = result

\* Init goes on whatever the function returned.
Leave_IgnoreError(r, next) ==
    IF op = "Init" THEN Goto(next) ELSE Return(r)

\* The end of a function RAK3172_LoRaWAN_Init calls under
\* RAK3172_ERROR_CHECK: Init goes on after success and returns the error
\* otherwise; called on its own the function returns to the caller.
Leave(r, next) ==
    IF op = "Init" /\ r = RAK3172_ERR_OK THEN Goto(next) ELSE Return(r)

\* TimeNow = esp_timer_get_time() / 1000ULL, stored in a uint32_t.
SampleStart ==
    /\ \E h \in startHi..MaxUptimeHi : startHi' = h
    /\ elapsed' = 0

(***************************************************************************)
(* RAK3172_LoRaWAN_StartJoin                                               *)
(***************************************************************************)
\* The checks without the test of the joined flag.
StartJoin_Args_IgnoreJoined(Attempts, joined) ==
    IF Attempts = 0 THEN RAK3172_ERR_INVALID_ARG
    ELSE NONE

\* The argument and state checks; NONE lets the call go on.
StartJoin_Args(Attempts, joined) ==
    IF Attempts = 0 THEN RAK3172_ERR_INVALID_ARG
    ELSE IF joined THEN RAK3172_ERR_OK
    ELSE NONE

StartJoin_Entry ==
    /\ pc = "sj_entry"
    /\ LET r == StartJoin_Args(arg.Attempts, isJoined)
       IN  IF r = NONE THEN Goto("sj_send") ELSE Return(r)
    /\ UNCHANGED <<callV, devV, modJoining, RxQueue, sent, lineV,
                   timeV, loopV, out, ubV, flightV, cfgV>>

\* RAK3172_ERROR_CHECK(RAK3172_SendCommand("AT+JOIN=1:...")), then
\* TimeNow = esp_timer_get_time() / 1000ULL.
StartJoin_Send ==
    /\ pc = "sj_send"
    /\ \E r \in SendResults :
          /\ sent' = Append(sent, Issued(JoinCmd(arg), r))
          /\ modJoining' = ModuleJoining(JoinCmd(arg), r, modJoining)
          /\ IF r # RAK3172_ERR_OK
             THEN Return(r) /\ UNCHANGED timeV
             ELSE Goto("sj_check") /\ SampleStart
    /\ UNCHANGED <<callV, devV, RxQueue, lineV, loopV, out, ubV,
                   flightV, cfgV>>

\* The timeout test without its Timeout > 0 guard.
StartJoin_TimedOut_Unguarded(Timeout, hi, ms) ==
    GE64(hi, ms, Hi32(Timeout * MsPerSecond), Lo32(Timeout * MsPerSecond))

\* (Timeout > 0) && (((esp_timer_get_time() / 1000ULL) - TimeNow)
\*                    >= (Timeout * 1000ULL))
StartJoin_TimedOut(Timeout, hi, ms) ==
    /\ Timeout > 0
    /\ GE64(hi, ms, Hi32(Timeout * MsPerSecond), Lo32(Timeout * MsPerSecond))

StartJoin_Check ==
    /\ pc = "sj_check"
    /\ IF StartJoin_TimedOut(arg.Timeout, startHi, elapsed)
       THEN Goto("sj_stop")
       ELSE Goto("sj_sleep")
    /\ UNCHANGED <<callV, devV, modJoining, RxQueue, sent, lineV,
                   timeV, loopV, out, ubV, flightV, cfgV>>

\* RAK3172_LoRaWAN_StopJoin(p_Device); return RAK3172_ERR_TIMEOUT;
StartJoin_Stop ==
    /\ pc = "sj_stop"
    /\ \E r \in SendResults :
          /\ sent' = Append(sent, Issued(CancelJoinCmd, r))
          /\ modJoining' = ModuleJoining(CancelJoinCmd, r, modJoining)
    /\ Return(RAK3172_ERR_TIMEOUT)
    /\ UNCHANGED <<callV, devV, RxQueue, lineV, timeV, loopV, out,
                   ubV, flightV, cfgV>>

\* while(p_Device->LoRaWAN.isJoined == false)
StartJoin_LoopAgain(joined) == joined = FALSE

\* The light sleep and vTaskDelay(20), then the loop condition.  The wait
\* hook on_Wait is not called anywhere in the function.
StartJoin_Sleep ==
    /\ pc = "sj_sleep"
    /\ elapsed' = Advance(elapsed, SleepMs, arg.Timeout)
    /\ iters' = Bump(iters)
    /\ IF StartJoin_LoopAgain(isJoined)
       THEN Goto("sj_check")
       ELSE Return(RAK3172_ERR_OK)
    /\ UNCHANGED <<callV, devV, modJoining, RxQueue, sent, lineV,
                   startHi, hookCalls, out, ubV, flightV, cfgV>>

(***************************************************************************)
(* RAK3172_LoRaWAN_StopJoin and RAK3172_LoRaWAN_isJoined                   *)
(***************************************************************************)
StopJoin_Send ==
    /\ pc = "stop_entry"
    /\ \E r \in SendResults :
          /\ sent' = Append(sent, Issued(CancelJoinCmd, r))
          /\ modJoining' = ModuleJoining(CancelJoinCmd, r, modJoining)
          /\ Return(r)
    /\ UNCHANGED <<callV, devV, RxQueue, lineV, timeV, loopV, out,
                   ubV, flightV, cfgV>>

\* The NULL check, then p_Device->LoRaWAN.isJoined = false.
IsJoined_Entry ==
    /\ pc = "ij_entry"
    /\ IF arg.OutNull
       THEN Return(RAK3172_ERR_INVALID_ARG) /\ UNCHANGED isJoined
       ELSE Goto("ij_query") /\ isJoined' = FALSE
    /\ UNCHANGED <<callV, isBusy, modJoining, RxQueue, sent, lineV,
                   timeV, loopV, out, ubV, flightV, cfgV>>

\* Value.compare("1") == 0
IsJoined_Value(v) == v = <<"1">>

\* The query; if(Value.compare("1") == 0) isJoined = true; then
\* *p_Joined = p_Device->LoRaWAN.isJoined.  The flag is only ever set here:
\* what the line receiver wrote since the entry stays.
IsJoined_Query ==
    /\ pc = "ij_query"
    /\ \E r \in SendResults : \E v \in NjsValues :
          /\ sent' = Append(sent, Queried(NjsQuery, r, v))
          /\ IF r # RAK3172_ERR_OK
             THEN Return(r) /\ UNCHANGED <<isJoined, out>>
             ELSE /\ isJoined' = (isJoined \/ IsJoined_Value(v))
                  /\ out' = [out EXCEPT !.Joined = <<isJoined'>>]
                  /\ Return(RAK3172_ERR_OK)
    /\ UNCHANGED <<callV, isBusy, modJoining, RxQueue, lineV, timeV,
                   loopV, ubV, flightV, cfgV>>

(***************************************************************************)
(* RAK3172_LoRaWAN_Transmit                                                *)
(***************************************************************************)
\* The argument and state checks; NONE lets the call go on.
Transmit_Args(Port, BufNull, Length, joined) ==
    IF (BufNull /\ Length = 0) \/ Port = 0 THEN RAK3172_ERR_INVALID_ARG
    ELSE IF joined = FALSE THEN RAK3172_ERR_NOT_CONNECTED
    ELSE IF Length = 0 THEN RAK3172_ERR_OK
    ELSE NONE

Transmit_Entry ==
    /\ pc = "tx_entry"
    /\ LET r == Transmit_Args(arg.Port, arg.BufNull, arg.Length, isJoined)
       IN  IF r = NONE THEN Goto("tx_encode") ELSE Return(r)
    /\ UNCHANGED <<callV, devV, modJoining, RxQueue, sent, lineV,
                   timeV, loopV, out, ubV, flightV, cfgV>>

\* The loop that reads ((uint8_t*)p_Buffer)[i] for i < Length.  With a NULL
\* buffer the read is undefined: the call is aborted or goes on with
\* whatever was read.
Transmit_Encode ==
    /\ pc = "tx_encode"
    /\ ubRead' = arg.BufNull
    /\ \/ Goto("tx_cfm")
       \/ arg.BufNull /\ Return(ABORT)
    /\ UNCHANGED <<callV, devV, modJoining, RxQueue, sent, lineV,
                   timeV, loopV, out, ubFree, flightV, cfgV>>

\* RAK3172_ERROR_CHECK(RAK3172_LoRaWAN_SetConfirmation(p_Device, Confirmed))
Transmit_SetConfirmation ==
    /\ pc = "tx_cfm"
    /\ \E r \in SendResults :
          /\ sent' = Append(sent, Issued(CfmCmd(arg.Confirmed), r))
          /\ IF r # RAK3172_ERR_OK THEN Return(r) ELSE Goto("tx_send")
    /\ UNCHANGED <<callV, devV, modJoining, RxQueue, lineV, timeV,
                   loopV, out, ubV, flightV, cfgV>>

\* Every accepted send waits for a confirmation.
Transmit_AfterSend_AlwaysWait(st, Confirmed) ==
    IF Contains(st, AT_BUSY_ERROR) THEN RAK3172_ERR_INVALID_RESPONSE
    ELSE NONE

\* The status text is not looked at.
Transmit_AfterSend_IgnoreBusy(st, Confirmed) ==
    IF Confirmed THEN NONE
    ELSE RAK3172_ERR_OK

\* What follows an accepted AT+SEND with the status text st.
Transmit_AfterSend(st, Confirmed) ==
    IF Contains(st, AT_BUSY_ERROR) THEN RAK3172_ERR_INVALID_RESPONSE
    ELSE IF Confirmed THEN NONE
    ELSE RAK3172_ERR_OK

\* RAK3172_ERROR_CHECK(RAK3172_SendCommand("AT+SEND=...", NULL, &Status)),
\* the busy check, and Now = esp_timer_get_time() / 1000ULL.
Transmit_Send ==
    /\ pc = "tx_send"
    /\ \E r \in SendResults : \E st \in StatusTexts :
          /\ sent' = Append(sent, [cmd |-> SendCmd(arg), res |-> r,
                                   status |-> IF r = RAK3172_ERR_OK
                                              THEN st ELSE <<>>,
                                   value |-> <<>>])
          /\ IF r # RAK3172_ERR_OK
             THEN Return(r) /\ UNCHANGED timeV
             ELSE LET a == Transmit_AfterSend(st, arg.Confirmed)
                  IN  IF a = NONE
                      THEN Goto("tx_wait") /\ SampleStart
                      ELSE Return(a) /\ UNCHANGED timeV
    /\ UNCHANGED <<callV, devV, modJoining, RxQueue, lineV, loopV,
                   out, ubV, flightV, cfgV>>

\* A classification that looks for the success marker only.
Transmit_Classify_OkOnly(line) ==
    IF Contains(line, SEND_CONFIRMED_OK) THEN RAK3172_ERR_OK
    ELSE NONE

\* What the loop does with a line taken from the queue: return a result, or
\* NONE to delete the line and go on.
Transmit_Classify(line) ==
    IF Contains(line, SEND_CONFIRMED_FAILED) THEN RAK3172_ERR_INVALID_RESPONSE
    ELSE IF Contains(line, SEND_CONFIRMED_OK) THEN RAK3172_ERR_OK
    ELSE NONE

\* One pass through the head of the loop: the wait hook, then
\* xQueueReceive(RxQueue, &Line, RAK3172_WAIT_TIMEOUT / portTICK_PERIOD_MS).
\* The two return statements leave the line undeleted.
Transmit_Wait ==
    /\ pc = "tx_wait"
    /\ iters' = Bump(iters)
    /\ hookCalls' = IF arg.Wait THEN Bump(hookCalls) ELSE hookCalls
    /\ IF RxQueue # <<>>
       THEN /\ RxQueue' = Tail(RxQueue)
            /\ consumed' = Append(consumed, Head(RxQueue))
            /\ UNCHANGED elapsed
            /\ LET r == Transmit_Classify(Head(RxQueue))
               IN  IF r = NONE
                   THEN /\ Goto("tx_check")
                        /\ linePtr' = "indeterminate"
                        /\ UNCHANGED unreleased
                   ELSE /\ Return(r)
                        /\ linePtr' = "valid"
                        /\ unreleased' = unreleased + 1
       ELSE /\ elapsed' = Advance(elapsed, RAK3172_WAIT_TIMEOUT, arg.Timeout)
            /\ Goto("tx_check")
            /\ UNCHANGED <<RxQueue, lineV>>
    /\ UNCHANGED <<callV, devV, modJoining, sent, startHi, out, ubV,
                   flightV, cfgV>>

\* The timeout test with the limit taken in microseconds.
Transmit_TimedOut_Micros(Timeout, hi, ms) ==
    /\ Timeout > 0
    /\ GE64(hi, ms, 0, Lo32(Timeout * MsPerSecond * MsPerSecond))

\* (Timeout > 0) && (((esp_timer_get_time() / 1000ULL) - Now)
\*                    >= (Timeout * 1000UL)); unsigned long has 32 bits.
Transmit_TimedOut(Timeout, hi, ms) ==
    /\ Timeout > 0
    /\ GE64(hi, ms, 0, Lo32(Timeout * MsPerSecond))

Transmit_Check ==
    /\ pc = "tx_check"
    /\ IF Transmit_TimedOut(arg.Timeout, startHi, elapsed)
       THEN Return(RAK3172_ERR_TIMEOUT)
       ELSE Goto("tx_sleep")
    /\ UNCHANGED <<callV, devV, modJoining, RxQueue, sent, lineV,
                   timeV, loopV, out, ubV, flightV, cfgV>>

Transmit_Sleep ==
    /\ pc = "tx_sleep"
    /\ elapsed' = Advance(elapsed, SleepMs, arg.Timeout)
    /\ Goto("tx_wait")
    /\ UNCHANGED <<callV, devV, modJoining, RxQueue, sent, lineV,
                   startHi, loopV, out, ubV, flightV, cfgV>>

(***************************************************************************)
(* RAK3172_LoRaWAN_Receive                                                 *)
(***************************************************************************)
Receive_Args(OutNull, Timeout, joined) ==
    IF OutNull \/ Timeout <= 1 THEN RAK3172_ERR_INVALID_ARG
    ELSE IF joined = FALSE THEN RAK3172_ERR_NOT_CONNECTED
    ELSE NONE

\* The checks and Now = esp_timer_get_time() / 1000ULL.
Receive_Entry ==
    /\ pc = "rx_entry"
    /\ LET r == Receive_Args(arg.OutNull, arg.Timeout, isJoined)
       IN  IF r = NONE
           THEN Goto("rx_poll") /\ SampleStart
           ELSE Return(r) /\ UNCHANGED timeV
    /\ UNCHANGED <<callV, devV, modJoining, RxQueue, sent, lineV,
                   loopV, out, ubV, flightV, cfgV>>

\* Index = Line->find(",");
\* Line->substr(Index + 7, Index + Line->find(",", Index) + 1), std::stoi
Receive_RSSI(line) ==
    LET Index == Find(line, <<",">>, 0)
        again == IF Index = npos THEN npos ELSE Find(line, <<",">>, Index)
        count == IF again = npos THEN npos ELSE Index + again + 1
        Dummy == Substr(line, Index + 7, count)
    IN  IF Dummy.ok THEN Stoi(Dummy.val) ELSE [ok |-> FALSE, val |-> 0]

\* Index = Line->find_last_of(",");
\* Line->substr(Index + 6, Line->length() - 1), std::stoi
Receive_SNR(line) ==
    LET Index == FindLastOf(line, ",")
        Dummy == Substr(line, Index + 6, Len(line) - 1)
    IN  IF Dummy.ok THEN Stoi(Dummy.val) ELSE [ok |-> FALSE, val |-> 0]

\* The payload is taken after the first ':'.
Receive_Payload_FirstColon(line) ==
    Substr(line, Find(line, <<":">>, 0) + 1, Len(line)).val

\* Line->substr(Line->find_last_of(":") + 1, Line->length())
Receive_Payload(line) == Substr(line, FindLastOf(line, ":") + 1, Len(line)).val

\* What the loop does with a line taken from the queue: the outputs it
\* writes and OK (return), EXCEPTION (std::stoi or substr threw) or NONE
\* (go on to delete Line).
Receive_Parse(line, WantRSSI, WantSNR, o) ==
    LET hasRX == Contains(line, MARK_RX)
        rssi == Receive_RSSI(line)
        snr == Receive_SNR(line)
        o1 == IF hasRX /\ WantRSSI THEN [o EXCEPT !.RSSI = <<rssi.val>>] ELSE o
        o2 == IF hasRX /\ WantSNR THEN [o1 EXCEPT !.SNR = <<snr.val>>] ELSE o1
    IN  IF hasRX /\ WantRSSI /\ ~rssi.ok THEN [res |-> EXCEPTION, out |-> o]
        ELSE IF hasRX /\ WantSNR /\ ~snr.ok THEN [res |-> EXCEPTION, out |-> o1]
        ELSE IF Contains(line, MARK_UNICAST)
        THEN [res |-> RAK3172_ERR_OK,
              out |-> [o2 EXCEPT !.Payload = <<Receive_Payload(line)>>]]
        ELSE [res |-> NONE, out |-> o2]

\* xQueueReceive and the handling of the line.  A return from inside the
\* if leaves the line undeleted.
Receive_Poll ==
    /\ pc = "rx_poll"
    /\ iters' = Bump(iters)
    /\ IF RxQueue # <<>>
       THEN /\ RxQueue' = Tail(RxQueue)
            /\ consumed' = Append(consumed, Head(RxQueue))
            /\ linePtr' = "valid"
            /\ unreleased' = unreleased + 1
            /\ UNCHANGED elapsed
            /\ LET p == Receive_Parse(Head(RxQueue), arg.WantRSSI,
                                      arg.WantSNR, out)
               IN  /\ out' = p.out
                   /\ IF p.res = NONE THEN Goto("rx_delete") ELSE Return(p.res)
       ELSE /\ elapsed' = Advance(elapsed, RAK3172_WAIT_TIMEOUT, arg.Timeout)
            /\ Goto("rx_delete")
            /\ UNCHANGED <<RxQueue, lineV, out>>
    /\ UNCHANGED <<callV, devV, modJoining, sent, startHi, hookCalls,
                   ubV, flightV, cfgV>>

\* delete Line, outside the if: when no line was taken in this pass, Line
\* is indeterminate and the delete is undefined (it goes unnoticed or the
\* process is aborted).
Receive_Delete ==
    /\ pc = "rx_delete"
    /\ IF linePtr = "valid"
       THEN /\ linePtr' = "indeterminate"
            /\ unreleased' = unreleased - 1
            /\ Goto("rx_check")
            /\ UNCHANGED ubFree
       ELSE /\ ubFree' = TRUE
            /\ UNCHANGED <<linePtr, unreleased>>
            /\ (Goto("rx_check") \/ Return(ABORT))
    /\ UNCHANGED <<callV, devV, modJoining, RxQueue, sent, consumed,
                   timeV, loopV, out, ubRead, flightV, cfgV>>

\* (Timeout > 0) && ((((esp_timer_get_time() / 1000ULL) - Now) / 1000ULL)
\*                    >= Timeout); floor(d / 1000) >= T iff d >= 1000 * T.
Receive_TimedOut(Timeout, hi, ms) ==
    /\ Timeout > 0
    /\ IF hi = 0 THEN (ms \div MsPerSecond) >= Timeout
       ELSE GE64(hi, ms, Hi32(Timeout * MsPerSecond),
                 Lo32(Timeout * MsPerSecond))

Receive_Check ==
    /\ pc = "rx_check"
    /\ IF Receive_TimedOut(arg.Timeout, startHi, elapsed)
       THEN Return(RAK3172_ERR_TIMEOUT)
       ELSE Goto("rx_sleep")
    /\ UNCHANGED <<callV, devV, modJoining, RxQueue, sent, lineV,
                   timeV, loopV, out, ubV, flightV, cfgV>>

Receive_Sleep ==
    /\ pc = "rx_sleep"
    /\ elapsed' = Advance(elapsed, SleepMs, arg.Timeout)
    /\ Goto("rx_poll")
    /\ UNCHANGED <<callV, devV, modJoining, RxQueue, sent, lineV,
                   startHi, loopV, out, ubV, flightV, cfgV>>

Last(q) == q[Len(q)]

(***************************************************************************)
(* Numbers as text.                                                        *)
(***************************************************************************)
DecDigits == <<"0", "1", "2", "3", "4", "5", "6", "7", "8", "9">>
HexDigits == DecDigits \o <<"A", "B", "C", "D", "E", "F">>

RECURSIVE DecStr(_)
\* std::to_string of an unsigned value.
DecStr(n) ==
    IF n < 10 THEN <<DecDigits[n + 1]>>
    ELSE Append(DecStr(n \div 10), DecDigits[(n % 10) + 1])

\* sprintf(Temp, "%04X", Mask) for Mask < 0x10000.
Hex4(n) ==
    << HexDigits[((n \div 4096) % 16) + 1], HexDigits[((n \div 256) % 16) + 1],
       HexDigits[((n \div 16) % 16) + 1], HexDigits[(n % 16) + 1] >>

(***************************************************************************)
(* The module's settings as the command engine shows them: an accepted     *)
(* AT+MASK stores the mask, AT+BAND=? and AT+MASK=? report what is stored. *)
(***************************************************************************)
BandQuery == Cmd("AT+BAND=?", <<>>)
MaskQuery == Cmd("AT+MASK=?", <<>>)
MaskCmd(text) == Cmd("AT+MASK", text)
TxpCmd(index) == Cmd("AT+TXP", <<index>>)
DutyQuery == Cmd("AT+DUTYTIME=?", <<>>)

\* The values the module reports for AT+DUTYTIME=?.
DutyValues == {<<"0">>, <<"3", "6", "0", "0">>}

(***************************************************************************)
(* RAK3172_LoRaWAN_GetBand, as the first step of the operations that need  *)
(* the band: RAK3172_ERROR_CHECK(RAK3172_LoRaWAN_GetBand(p_Device, &Band)) *)
(***************************************************************************)
GetBand_Step(at, next) ==
    /\ pc = at
    /\ \E r \in SendResults :
          /\ sent' = Append(sent, Queried(BandQuery, r, DecStr(modBand)))
          /\ IF r # RAK3172_ERR_OK THEN Return(r)
             ELSE IF Stoi(DecStr(modBand)).ok THEN Goto(next)
             ELSE Return(EXCEPTION)
    /\ UNCHANGED <<callV, devV, modJoining, RxQueue, lineV, timeV, loopV,
                   out, ubV, flightV, cfgV>>

\* *p_Band = (RAK3172_Band_t)std::stoi(Value), of the query just made.
BandRead == Stoi(Last(sent).value).val

(***************************************************************************)
(* RAK3172_LoRaWAN_SetSubBand                                              *)
(***************************************************************************)
SetSubBand_Entry ==
    /\ pc = "ssb_entry"
    /\ IF arg.Subband = RAK_SUB_BAND_NONE
       THEN Return(RAK3172_ERR_OK)
       ELSE Goto("ssb_band")
    /\ UNCHANGED <<callV, devV, modJoining, RxQueue, sent, lineV, timeV,
                   loopV, out, ubV, flightV, cfgV>>

SetSubBand_GetBand == GetBand_Step("ssb_band", "ssb_mask")

\* No test of the band: every band takes a mask.
SetSubBand_Check_AnyBand(Sub, Dummy) ==
    IF (Sub > RAK_SUB_BAND_9) /\ (Dummy # RAK_BAND_CN470)
    THEN RAK3172_ERR_INVALID_ARG
    ELSE NONE

\* The band and sub band tests; NONE lets the mask command go out.
SetSubBand_Check(Sub, Dummy) ==
    IF Dummy \in {RAK_BAND_US915, RAK_BAND_AU915, RAK_BAND_CN470}
    THEN IF (Sub > RAK_SUB_BAND_9) /\ (Dummy # RAK_BAND_CN470)
         THEN RAK3172_ERR_INVALID_ARG
         ELSE NONE
    ELSE RAK3172_ERR_FAIL

\* "0000" for all channels, else "%04X" of 1 << (Band - 2).
SetSubBand_MaskText(Sub) ==
    IF Sub = RAK_SUB_BAND_ALL THEN MASK_ALL ELSE Hex4(2 ^ (Sub - 2))

SetSubBand_Mask ==
    /\ pc = "ssb_mask"
    /\ LET c == SetSubBand_Check(arg.Subband, BandRead)
           text == SetSubBand_MaskText(arg.Subband)
       IN  IF c # NONE
           THEN Return(c) /\ UNCHANGED <<sent, modMask, lastSub>>
           ELSE \E r \in SendResults :
                   /\ sent' = Append(sent, Issued(MaskCmd(text), r))
                   /\ modMask' = (IF r = RAK3172_ERR_OK THEN text ELSE modMask)
                   /\ lastSub' = (IF r = RAK3172_ERR_OK
                                  THEN arg.Subband ELSE lastSub)
                   /\ Leave(r, "sr_entry")
    /\ UNCHANGED <<callV, devV, modJoining, RxQueue, lineV, timeV, loopV,
                   out, ubV, flightV, Join, modBand>>

(***************************************************************************)
(* RAK3172_LoRaWAN_GetSubBand                                              *)
(***************************************************************************)
GetSubBand_Entry ==
    /\ pc = "gsb_entry"
    /\ IF arg.OutNull
       THEN Return(RAK3172_ERR_INVALID_ARG)
       ELSE Goto("gsb_band")
    /\ UNCHANGED <<callV, devV, modJoining, RxQueue, sent, lineV, timeV,
                   loopV, out, ubV, flightV, cfgV>>

GetSubBand_GetBand == GetBand_Step("gsb_band", "gsb_mask")

RECURSIVE GetSubBand_Shifts(_, _)
\* while(Mask != 1) { Mask >>= 1; Shifts++; } with a uint8_t Shifts.
GetSubBand_Shifts(Mask, Shifts) ==
    IF Mask = 1 THEN Shifts
    ELSE GetSubBand_Shifts(Mask \div 2, (Shifts + 1) % (UINT8_MAX + 1))

\* The sub band for the parsed mask: ALL for 0, else Shifts + 2.
GetSubBand_FromMask(Mask) ==
    IF Mask = 0 THEN RAK_SUB_BAND_ALL
    ELSE GetSubBand_Shifts(Mask, 1) + 2

GetSubBand_Mask ==
    /\ pc = "gsb_mask"
    /\ IF BandRead \notin {RAK_BAND_US915, RAK_BAND_AU915, RAK_BAND_CN470}
       THEN /\ out' = [out EXCEPT !.SubBand = <<RAK_SUB_BAND_NONE>>]
            /\ Return(RAK3172_ERR_OK)
            /\ sent' = sent
       ELSE \E r \in SendResults :
               /\ sent' = Append(sent, Queried(MaskQuery, r, modMask))
               /\ IF r # RAK3172_ERR_OK
                  THEN Return(r) /\ out' = out
                  ELSE LET m == Stoi(modMask)
                       IN  IF m.ok
                           THEN /\ out' = [out EXCEPT !.SubBand =
                                              <<GetSubBand_FromMask(m.val)>>]
                                /\ Return(RAK3172_ERR_OK)
                           ELSE Return(EXCEPTION) /\ out' = out
    /\ UNCHANGED <<callV, devV, modJoining, RxQueue, lineV, timeV, loopV,
                   ubV, flightV, cfgV>>

(***************************************************************************)
(* RAK3172_LoRaWAN_SetTxPwr                                                *)
(***************************************************************************)
SetTxPwr_GetBand == GetBand_Step("stp_band", "stp_send")

\* The index for a band without a table entry is the one for the band's
\* maximum: the power is not clamped at the floor.
SetTxPwr_Index_NoFloor(Band, TxPwr) ==
    IF Band = RAK_BAND_EU868
    THEN IF TxPwr >= 16 THEN 0 ELSE (16 - TxPwr) \div 2
    ELSE IF Band = RAK_BAND_US915
    THEN IF TxPwr >= 30 THEN 0 ELSE (30 - TxPwr) \div 2
    ELSE 0

\* TxPwrIndex for the band read from the module.
SetTxPwr_Index(Band, TxPwr) ==
    IF Band = RAK_BAND_EU868
    THEN IF TxPwr >= 16 THEN 0
         ELSE IF TxPwr < (16 - 14) THEN 10
         ELSE ((16 - TxPwr) \div 2) % (UINT8_MAX + 1)
    ELSE IF Band = RAK_BAND_US915
    THEN IF TxPwr >= 30 THEN 0
         ELSE IF TxPwr < 10 THEN 10
         ELSE ((30 - TxPwr) \div 2) % (UINT8_MAX + 1)
    ELSE 0

SetTxPwr_Send ==
    /\ pc = "stp_send"
    /\ \E r \in SendResults :
          /\ sent' = Append(sent,
                        Issued(TxpCmd(SetTxPwr_Index(BandRead, arg.TxPwr)), r))
          /\ Leave(r, "in_njm")
    /\ UNCHANGED <<callV, devV, modJoining, RxQueue, lineV, timeV, loopV,
                   out, ubV, flightV, cfgV>>

(***************************************************************************)
(* RAK3172_LoRaWAN_GetDuty                                                 *)
(***************************************************************************)
GetDuty_GetBand == GetBand_Step("gd_band", "gd_query")

GetDuty_Query ==
    /\ pc = "gd_query"
    /\ IF BandRead \notin {RAK_BAND_EU868, RAK_BAND_RU864, RAK_BAND_EU433}
       THEN /\ Return(RAK3172_ERR_INVALID_ARG)
            /\ UNCHANGED <<sent, out>>
       ELSE \E r \in SendResults : \E v \in DutyValues :
               /\ sent' = Append(sent, Queried(DutyQuery, r, v))
               /\ IF r # RAK3172_ERR_OK
                  THEN Return(r) /\ out' = out
                  ELSE /\ out' = [out EXCEPT !.Duty =
                                     <<Stoi(v).val % (UINT8_MAX + 1)>>]
                       /\ Return(RAK3172_ERR_OK)
    /\ UNCHANGED <<callV, devV, modJoining, RxQueue, lineV, timeV, loopV,
                   ubV, flightV, cfgV>>

(***************************************************************************)
(* RAK3172_LoRaWAN_SetRetries                                              *)
(***************************************************************************)
RetyCmd(n) == Cmd("AT+RETY", <<n>>)

SetRetries_Entry ==
    /\ pc = "sr_entry"
    /\ IF arg.Retries > 7
       THEN Return(RAK3172_ERR_INVALID_ARG) /\ sent' = sent
       ELSE \E r \in SendResults :
               /\ sent' = Append(sent, Issued(CfmCmd(arg.Retries > 0), r))
               /\ IF r = RAK3172_ERR_OK THEN Goto("sr_rety") ELSE Return(r)
    /\ UNCHANGED <<callV, devV, modJoining, RxQueue, lineV, timeV, loopV,
                   out, ubV, flightV, cfgV>>

SetRetries_Rety ==
    /\ pc = "sr_rety"
    /\ \E r \in SendResults :
          /\ sent' = Append(sent, Issued(RetyCmd(arg.Retries), r))
          /\ Leave(r, "stp_band")
    /\ UNCHANGED <<callV, devV, modJoining, RxQueue, lineV, timeV, loopV,
                   out, ubV, flightV, cfgV>>

(***************************************************************************)
(* RAK3172_LoRaWAN_SetOTAAKeys and RAK3172_LoRaWAN_SetABPKeys              *)
(***************************************************************************)
OTAAKeyCmds == <<Cmd("AT+DEVEUI", <<>>), Cmd("AT+APPEUI", <<>>),
                 Cmd("AT+APPKEY", <<>>)>>
ABPKeyCmds == <<Cmd("AT+APPSKEY", <<>>), Cmd("AT+NWKSKEY", <<>>),
                Cmd("AT+DEVADDR", <<>>)>>

\* The key setter works whatever the join mode is.
SetKeys_Args_AnyMode(DevNull, KeyNull, join, mode) ==
    IF DevNull \/ KeyNull # 0 THEN RAK3172_ERR_INVALID_ARG
    ELSE NONE

\* The argument and join mode tests of a key setter for join mode `mode`;
\* NONE lets the key commands go out.
SetKeys_Args(DevNull, KeyNull, join, mode) ==
    IF DevNull \/ KeyNull # 0 THEN RAK3172_ERR_INVALID_ARG
    ELSE IF join # mode THEN RAK3172_ERR_INVALID_STATE
    ELSE NONE

SetKeys_Entry(at, mode, next) ==
    /\ pc = at
    /\ LET r == SetKeys_Args(arg.DevNull, arg.KeyNull, Join, mode)
       IN  IF r = NONE THEN Goto(next) ELSE Return(r)
    /\ UNCHANGED <<callV, devV, modJoining, RxQueue, sent, lineV, timeV,
                   loopV, out, ubV, flightV, cfgV>>

\* The three key commands, one at each of the labels `at`:
\* RAK3172_ERROR_CHECK on the first two, the result of the third returned.
SetKeys_Send(at, cmds) ==
    /\ \E k \in 1..Len(cmds) : \E r \in SendResults :
          /\ pc = at[k]
          /\ sent' = Append(sent, Issued(cmds[k], r))
          /\ IF k < Len(cmds) /\ r = RAK3172_ERR_OK
             THEN Goto(at[k + 1])
             ELSE Return(r)
    /\ UNCHANGED <<callV, devV, modJoining, RxQueue, lineV, timeV, loopV,
                   out, ubV, flightV, cfgV>>

SetOTAAKeys_Entry == SetKeys_Entry("otaa_entry", RAK_JOIN_OTAA, "otaa_1")
SetOTAAKeys_Send ==
    SetKeys_Send(<<"otaa_1", "otaa_2", "otaa_3">>, OTAAKeyCmds)
SetABPKeys_Entry == SetKeys_Entry("abp_entry", RAK_JOIN_ABP, "abp_1")
SetABPKeys_Send ==
    SetKeys_Send(<<"abp_1", "abp_2", "abp_3">>, ABPKeyCmds)

(***************************************************************************)
(* RAK3172_LoRaWAN_Init                                                    *)
(***************************************************************************)
\* RAK3172_SetMode(p_Device, RAK_MODE_LORAWAN), as one call that succeeds or
\* fails.
SetModeCmd == Cmd("SetMode", <<"RAK_MODE_LORAWAN">>)
ClassCmd(c) == Cmd("AT+CLASS", <<c>>)
AdrCmd(enable) == Cmd("AT+ADR", <<BoolStr(enable)>>)
BandCmd(b) == Cmd("AT+BAND", <<b>>)
NjmCmd(m) == Cmd("AT+NJM", <<m>>)

\* The key pointers are not looked at.
Init_Args_IgnoreKeys(DevNull, Class, KeyNull) ==
    IF DevNull \/ Class \notin {"A", "B", "C"}
    THEN RAK3172_ERR_INVALID_ARG
    ELSE NONE

\* The argument test; NONE lets the call go on.
Init_Args(DevNull, Class, KeyNull) ==
    IF DevNull \/ Class \notin {"A", "B", "C"} \/ KeyNull # 0
    THEN RAK3172_ERR_INVALID_ARG
    ELSE NONE

Init_Entry ==
    /\ pc = "in_entry"
    /\ LET r == Init_Args(arg.DevNull, arg.Class, arg.KeyNull)
       IN  IF r = NONE THEN Goto("in_mode") ELSE Return(r)
    /\ UNCHANGED <<callV, devV, modJoining, RxQueue, sent, lineV, timeV,
                   loopV, out, ubV, flightV, cfgV>>

\* RAK3172_ERROR_CHECK(RAK3172_SendCommand(p_Device, c, NULL, NULL)) in Init.
Init_Command(at, c, next) ==
    /\ pc = at
    /\ \E r \in SendResults :
          /\ sent' = Append(sent, Issued(c, r))
          /\ IF r = RAK3172_ERR_OK THEN Goto(next) ELSE Return(r)
    /\ UNCHANGED <<callV, devV, modJoining, RxQueue, lineV, timeV, loopV,
                   out, ubV, flightV, cfgV>>

Init_SetMode == Init_Command("in_mode", SetModeCmd, "in_stop")

Init_StopJoin ==
    /\ pc = "in_stop"
    /\ \E r \in SendResults :
          /\ sent' = Append(sent, Issued(CancelJoinCmd, r))
          /\ modJoining' = ModuleJoining(CancelJoinCmd, r, modJoining)
          /\ IF r = RAK3172_ERR_OK THEN Goto("in_njs") ELSE Return(r)
    /\ UNCHANGED <<callV, devV, RxQueue, lineV, timeV, loopV, out,
                   ubV, flightV, cfgV>>

\* RAK3172_LoRaWAN_isJoined(p_Device, &p_Device->LoRaWAN.isJoined), then
\* p_Device->Internal.isBusy = false.
Init_isJoined ==
    /\ pc = "in_njs"
    /\ \E r \in SendResults : \E v \in NjsValues :
          /\ sent' = Append(sent, Issued(NjsQuery, r))
          /\ IF r # RAK3172_ERR_OK
             THEN Return(r) /\ isJoined' = FALSE /\ isBusy' = isBusy
             ELSE /\ isJoined' = IsJoined_Value(v)
                  /\ isBusy' = FALSE
                  /\ Goto("in_class")
    /\ UNCHANGED <<callV, modJoining, RxQueue, lineV, timeV, loopV, out,
                   ubV, flightV, cfgV>>

Init_Class == Init_Command("in_class", ClassCmd(arg.Class), "in_adr")

Init_SetADR == Init_Command("in_adr", AdrCmd(arg.UseADR), "in_band")

\* RAK3172_LoRaWAN_SetBand, then SetSubBand unless the sub band is NONE.
Init_SetBand ==
    /\ pc = "in_band"
    /\ \E r \in SendResults :
          /\ sent' = Append(sent, Issued(BandCmd(arg.Band), r))
          /\ modBand' = (IF r = RAK3172_ERR_OK THEN arg.Band ELSE modBand)
          /\ IF r # RAK3172_ERR_OK THEN Return(r)
             ELSE IF arg.Subband # RAK_SUB_BAND_NONE THEN Goto("ssb_entry")
             ELSE Goto("sr_entry")
    /\ UNCHANGED <<callV, devV, modJoining, RxQueue, lineV, timeV, loopV,
                   out, ubV, flightV, Join, modMask, lastSub>>

\* RAK3172_LoRaWAN_SetJoinMode, p_Device->LoRaWAN.Join = JoinMode, and the
\* choice of the key setter.
Init_SetJoinMode ==
    /\ pc = "in_njm"
    /\ \E r \in SendResults :
          /\ sent' = Append(sent, Issued(NjmCmd(arg.JoinMode), r))
          /\ IF r # RAK3172_ERR_OK
             THEN Return(r) /\ Join' = Join
             ELSE /\ Join' = arg.JoinMode
                  /\ IF arg.JoinMode = RAK_JOIN_OTAA
                     THEN Goto("otaa_entry")
                     ELSE Goto("abp_entry")
    /\ UNCHANGED <<callV, devV, modJoining, RxQueue, lineV, timeV, loopV,
                   out, ubV, flightV, modBand, modMask, lastSub>>

(***************************************************************************)
(* The hex encoding of byte buffers: sprintf(Buffer, "%02X", byte) for the *)
(* OTAA and ABP keys, sprintf(Buffer, "%02x", byte) for the P2P encryption *)
(* key and the transmit payload, each appended to the string.              *)
(***************************************************************************)
HexDigitsLower == DecDigits \o <<"a", "b", "c", "d", "e", "f">>

\* sprintf(Buffer, "%02X", b)
Sprintf02X(b) == <<HexDigits[(b \div 16) + 1], HexDigits[(b % 16) + 1]>>

\* sprintf(Buffer, "%02x", b)
Sprintf02x(b) ==
    <<HexDigitsLower[(b \div 16) + 1], HexDigitsLower[(b % 16) + 1]>>

RECURSIVE EncodeLoop(_, _)
\* for(i = 0; i < n; i++) { sprintf(Buffer, fmt, p[i]); String += Buffer; }
EncodeLoop(bytes, upper) ==
    IF bytes = <<>> THEN <<>>
    ELSE (IF upper THEN Sprintf02X(Head(bytes)) ELSE Sprintf02x(Head(bytes)))
         \o EncodeLoop(Tail(bytes), upper)

\* The case each encoding loop prints in.
EncodeUpper(o) ==
    CASE o = "OTAAKeys" -> TRUE
      [] o = "ABPKeys" -> TRUE
      [] o = "P2PKey" -> FALSE
      [] o = "Payload" -> FALSE

Encode ==
    /\ pc = "encode"
    /\ out' = [out EXCEPT !.Hex = EncodeLoop(arg.Bytes, EncodeUpper(op))]
    /\ Return(RAK3172_ERR_OK)
    /\ UNCHANGED <<callV, devV, modJoining, RxQueue, sent, lineV, timeV,
                   loopV, ubV, flightV, cfgV>>

(***************************************************************************)
(* The line receiver (design text 4.1), for unsolicited lines: the line    *)
(* goes to the event queue; a join notice sets the joined flag.  The       *)
(* module reports a join only while it runs a join attempt.                *)
(***************************************************************************)
LineReceiver ==
    /\ ~Idle
    /\ Len(consumed) + Len(RxQueue) < MaxLines
    /\ Len(RxQueue) < MaxQueue
    /\ \E l \in EventLines :
          /\ l = EVT_JOINED => modJoining
          /\ RxQueue' = Append(RxQueue, l)
          /\ isJoined' = (IF l = EVT_JOINED THEN TRUE ELSE isJoined)
          /\ modJoining' = (IF l = EVT_JOINED THEN FALSE ELSE modJoining)
    /\ UNCHANGED <<pc, result, callV, isBusy, sent, lineV, timeV, loopV, out,
                   ubV, flightV, cfgV>>

(***************************************************************************)
(* RAK3172_LoRaWAN_Init and the command engine with two caller contexts.   *)
(*                                                                         *)
(* Caller 1 runs RAK3172_LoRaWAN_Init (OTAA, no sub band), caller 2 calls  *)
(* RAK3172_LoRaWAN_StopJoin.  RAK3172_SendCommand serialises: a send       *)
(* begins only when the busy flag is clear, the busy flag is cleared on    *)
(* every terminal outcome, and a wait is only given up when the module     *)
(* owes the caller no reply.  The module answers in order and carries no   *)
(* request identifier: the from field is a ghost.                          *)
(***************************************************************************)
Callers == {1, 2}

CLEAR_BUSY == "isBusy = false"

\* The statements of RAK3172_LoRaWAN_Init that touch the command slot.
InitProgram ==
    << "AT+NWM=1", "AT+JOIN=0:0:7:0", "AT+NJS=?", CLEAR_BUSY, "AT+CLASS=A",
       "AT+ADR=1", "AT+BAND=4", "AT+CFM=1", "AT+RETY=1", "AT+BAND=?",
       "AT+TXP=0", "AT+NJM=1", "AT+DEVEUI", "AT+APPEUI", "AT+APPKEY" >>

StopJoinProgram == << "AT+JOIN=0:0:7:0" >>

Program(c) == IF c = 1 THEN InitProgram ELSE StopJoinProgram

soloV == <<pc, result, callV, isJoined, modJoining, RxQueue, sent, lineV,
             timeV, loopV, out, ubV, cfgV>>

Flight_Call(c) ==
    /\ fpc[c] = "idle"
    /\ fpc' = [fpc EXCEPT ![c] = "ready"]
    /\ fstep' = [fstep EXCEPT ![c] = 1]
    /\ fres' = [fres EXCEPT ![c] = NONE]
    /\ UNCHANGED <<soloV, isBusy, uart, modOut, wrongDelivery>>

\* RAK3172_SendCommand begins: marks the slot busy and writes the command.
Flight_Send(c) ==
    /\ fpc[c] = "ready"
    /\ Program(c)[fstep[c]] # CLEAR_BUSY
    /\ isBusy = FALSE
    /\ Len(uart) + Len(modOut) < MaxFlight
    /\ isBusy' = TRUE
    /\ uart' = Append(uart, [from |-> c, cmd |-> Program(c)[fstep[c]]])
    /\ fpc' = [fpc EXCEPT ![c] = "wait"]
    /\ UNCHANGED <<soloV, fstep, modOut, fres, wrongDelivery>>

\* p_Device->Internal.isBusy = false;
Init_ClearBusy ==
    /\ fpc[1] = "ready"
    /\ InitProgram[fstep[1]] = CLEAR_BUSY
    /\ isBusy' = FALSE
    /\ fstep' = [fstep EXCEPT ![1] = @ + 1]
    /\ UNCHANGED <<soloV, fpc, uart, modOut, fres, wrongDelivery>>

\* RAK3172_ERROR_CHECK: the first failing command ends the call.
Flight_Complete(c, r) ==
    IF r = RAK3172_ERR_OK /\ fstep[c] < Len(Program(c))
    THEN /\ fpc' = [fpc EXCEPT ![c] = "ready"]
         /\ fstep' = [fstep EXCEPT ![c] = @ + 1]
         /\ fres' = fres
    ELSE /\ fpc' = [fpc EXCEPT ![c] = "done"]
         /\ fstep' = fstep
         /\ fres' = [fres EXCEPT ![c] = r]

Owed(c) ==
    \/ \E i \in 1..Len(uart) : uart[i].from = c
    \/ \E i \in 1..Len(modOut) : modOut[i].from = c

\* The bounded wait of RAK3172_SendCommand elapses.
Flight_Timeout(c) ==
    /\ fpc[c] = "wait"
    /\ ~Owed(c)
    /\ isBusy' = FALSE
    /\ Flight_Complete(c, RAK3172_ERR_TIMEOUT)
    /\ UNCHANGED <<soloV, uart, modOut, wrongDelivery>>

Flight_Return(c) ==
    /\ fpc[c] = "done"
    /\ fpc' = [fpc EXCEPT ![c] = "idle"]
    /\ UNCHANGED <<soloV, isBusy, fstep, uart, modOut, fres, wrongDelivery>>

TerminalLines == {"OK", "ERROR"}

TerminalResult(line) ==
    IF line = "OK" THEN RAK3172_ERR_OK ELSE RAK3172_ERR_INVALID_RESPONSE

\* The module answers the oldest command it has received.
Module_Reply ==
    /\ uart # <<>>
    /\ \E l \in TerminalLines :
          modOut' = Append(modOut, [from |-> Head(uart).from, line |-> l])
    /\ uart' = Tail(uart)
    /\ UNCHANGED <<soloV, isBusy, fpc, fstep, fres, wrongDelivery>>

\* The module loses a command.
Module_Drop ==
    /\ uart # <<>>
    /\ uart' = Tail(uart)
    /\ UNCHANGED <<soloV, isBusy, modOut, fpc, fstep, fres, wrongDelivery>>

\* The line receiver hands a terminal line to the result channel while the
\* slot is busy; a context blocked on the channel takes it.
Receiver_Deliver ==
    /\ modOut # <<>>
    /\ isBusy
    /\ \E c \in Callers :
          /\ fpc[c] = "wait"
          /\ Flight_Complete(c, TerminalResult(Head(modOut).line))
          /\ wrongDelivery' = (wrongDelivery \/ Head(modOut).from # c)
    /\ isBusy' = FALSE
    /\ modOut' = Tail(modOut)
    /\ UNCHANGED <<soloV, uart>>

\* With no slot busy the line goes to the event channel.
Receiver_Event ==
    /\ modOut # <<>>
    /\ isBusy = FALSE
    /\ modOut' = Tail(modOut)
    /\ UNCHANGED <<soloV, isBusy, uart, fpc, fstep, fres, wrongDelivery>>

(***************************************************************************)
(* One caller context.                                                     *)
(***************************************************************************)
InitCfg(joined, band, join) ==
    /\ pc = "idle"
    /\ op = "none"
    /\ arg = NoArg
    /\ result = NONE
    /\ isJoined = joined
    /\ isBusy = FALSE
    /\ modJoining = FALSE
    /\ RxQueue = <<>>
    /\ sent = <<>>
    /\ consumed = <<>>
    /\ linePtr = "indeterminate"
    /\ unreleased = 0
    /\ startHi = 0
    /\ elapsed = 0
    /\ iters = 0
    /\ hookCalls = 0
    /\ out = NoOut
    /\ ubRead = FALSE
    /\ ubFree = FALSE
    /\ fpc = [c \in Callers |-> "idle"]
    /\ fstep = [c \in Callers |-> 1]
    /\ uart = <<>>
    /\ modOut = <<>>
    /\ fres = [c \in Callers |-> NONE]
    /\ wrongDelivery = FALSE
    /\ Join = join
    /\ modBand = band
    /\ modMask = MASK_ALL
    /\ lastSub = RAK_SUB_BAND_ALL

InitWith(joined) == InitCfg(joined, RAK_BAND_EU868, RAK_JOIN_ABP)

\* The device after construction: not joined, no command outstanding.
Init == InitWith(FALSE)

\* The steps of a call that is under way.
CallerStep ==
    \/ StartJoin_Entry \/ StartJoin_Send \/ StartJoin_Check
    \/ StartJoin_Stop \/ StartJoin_Sleep
    \/ StopJoin_Send \/ IsJoined_Entry \/ IsJoined_Query
    \/ Transmit_Entry \/ Transmit_Encode \/ Transmit_SetConfirmation
    \/ Transmit_Send \/ Transmit_Wait \/ Transmit_Check \/ Transmit_Sleep
    \/ Receive_Entry \/ Receive_Poll \/ Receive_Delete \/ Receive_Check
    \/ Receive_Sleep

Next == Call \/ Finish \/ CallerStep \/ LineReceiver

Spec == Init /\ [][Next]_vars

\* Transmit calls on a joined device.
InitJoined == InitWith(TRUE)

CallTransmit == CallOf({"Transmit"})

TransmitStep ==
    \/ Transmit_Entry \/ Transmit_Encode \/ Transmit_SetConfirmation
    \/ Transmit_Send \/ Transmit_Wait \/ Transmit_Check \/ Transmit_Sleep

NextTransmit == CallTransmit \/ Finish \/ TransmitStep \/ LineReceiver

\* The caller is a FreeRTOS task: a call under way keeps being scheduled,
\* and every sleep and queue wait lets the clock advance.
SpecFair == InitJoined /\ [][NextTransmit]_vars /\ WF_vars(TransmitStep)

(***************************************************************************)
(* Several caller contexts on one device.                                  *)
(***************************************************************************)
NextFlight ==
    \/ \E c \in Callers :
          \/ Flight_Call(c) \/ Flight_Send(c) \/ Flight_Timeout(c)
          \/ Flight_Return(c)
    \/ Init_ClearBusy
    \/ Module_Reply \/ Module_Drop
    \/ Receiver_Deliver \/ Receiver_Event

SpecFlight == Init /\ [][NextFlight]_vars

(***************************************************************************)
(* The band-dependent settings, for every band the module may be set to.   *)
(***************************************************************************)
BandOps == {"SetSubBand", "GetSubBand", "SetTxPwr", "GetDuty"}

InitBand == \E b \in Bands : InitCfg(FALSE, b, RAK_JOIN_ABP)

CallBand == CallOf(BandOps)

BandStep ==
    \/ SetSubBand_Entry
    \/ SetSubBand_GetBand
    \/ SetSubBand_Mask
    \/ GetSubBand_Entry
    \/ GetSubBand_GetBand
    \/ GetSubBand_Mask
    \/ SetTxPwr_GetBand
    \/ SetTxPwr_Send
    \/ GetDuty_GetBand
    \/ GetDuty_Query

NextBand == CallBand \/ Finish \/ BandStep

SpecBand == InitBand /\ [][NextBand]_vars

(***************************************************************************)
(* Initialization and key provisioning, for a device handle whose join     *)
(* mode is either value.                                                   *)
(***************************************************************************)
InitOps == {"Init", "SetOTAAKeys", "SetABPKeys", "SetRetries"}

InitAny == \E j \in {RAK_JOIN_ABP, RAK_JOIN_OTAA} :
              InitCfg(FALSE, RAK_BAND_EU868, j)

CallInit == CallOf(InitOps)

InitStep ==
    \/ Init_Entry
    \/ Init_SetMode
    \/ Init_StopJoin
    \/ Init_isJoined
    \/ Init_Class
    \/ Init_SetADR
    \/ Init_SetBand
    \/ SetSubBand_Entry
    \/ SetSubBand_GetBand
    \/ SetSubBand_Mask
    \/ SetRetries_Entry
    \/ SetRetries_Rety
    \/ SetTxPwr_GetBand
    \/ SetTxPwr_Send
    \/ Init_SetJoinMode
    \/ SetOTAAKeys_Entry
    \/ SetOTAAKeys_Send
    \/ SetABPKeys_Entry
    \/ SetABPKeys_Send

NextInit == CallInit \/ Finish \/ InitStep

SpecInit == InitAny /\ [][NextInit]_vars

(***************************************************************************)
(* Receive on a joined device, with the lines of both metadata formats.    *)
(***************************************************************************)
ParseLines == {EVT_RX, EVT_UNICAST, EVT_RX_META, EVT_UNICAST_HELLO}

\* The line receiver puts a received line into the event queue.
ParseReceiver ==
    /\ ~Idle
    /\ Len(consumed) + Len(RxQueue) < MaxLines
    /\ Len(RxQueue) < MaxQueue
    /\ \E l \in ParseLines : RxQueue' = Append(RxQueue, l)
    /\ UNCHANGED <<pc, result, callV, devV, modJoining, sent, lineV, timeV,
                   loopV, out, ubV, flightV, cfgV>>

CallReceive == CallOf({"Receive"})

ReceiveStep ==
    \/ Receive_Entry \/ Receive_Poll \/ Receive_Delete \/ Receive_Check
    \/ Receive_Sleep

NextParse == CallReceive \/ Finish \/ ReceiveStep \/ ParseReceiver

SpecParse == InitJoined /\ [][NextParse]_vars

(***************************************************************************)
(* The encoding loops on their own, for every buffer in ByteSeqs.          *)
(***************************************************************************)
CallEncode == CallOf(EncodeOps)

NextEncode == CallEncode \/ Finish \/ Encode

SpecEncode == Init /\ [][NextEncode]_vars

(***************************************************************************)
(* Properties.                                                             *)
(***************************************************************************)

\* The arguments the design text accepts for Transmit and Receive.
Transmit_ValidArgs(a) == a.Port # 0 /\ (a.Length > 0 => ~a.BufNull)
Receive_ValidArgs(a) == ~a.OutNull /\ a.Timeout > 1

\* C1: with several caller contexts on one device no result is delivered to
\* the wrong caller, and the busy flag is never clear while a caller's
\* command is still outstanding.
C1_SingleFlight ==
    /\ wrongDelivery = FALSE
    /\ \A c \in Callers : fpc[c] = "wait" => isBusy

\* C2: Transmit and Receive called with valid arguments while the joined
\* flag is false return NotConnected, issue no command, take no line from
\* the event queue and leave the device state unchanged.
C2_NotConnectedWhenUnjoined ==
    [][ ( /\ \/ pc = "tx_entry" /\ Transmit_ValidArgs(arg)
             \/ pc = "rx_entry" /\ Receive_ValidArgs(arg)
          /\ isJoined = FALSE
          /\ pc' # pc )
        => /\ pc' = "done"
           /\ result' = RAK3172_ERR_NOT_CONNECTED
           /\ sent' = <<>>
           /\ consumed' = <<>>
           /\ UNCHANGED <<isJoined, isBusy, modJoining, RxQueue>> ]_vars

\* C3: on a joined device, Transmit with a non-zero port, a NULL payload and
\* length 0 returns success and issues no command.
C3_ZeroLengthTransmit ==
    ( /\ pc = "done" /\ op = "Transmit"
      /\ isJoined
      /\ arg.Port # 0 /\ arg.BufNull /\ arg.Length = 0 )
    => (result = RAK3172_ERR_OK /\ sent = <<>>)

\* C4: Transmit rejects port 0, and a NULL payload with length > 0, with
\* InvalidArgument, before any command is issued and before the payload is
\* read.
C4_TransmitRejects ==
    ( /\ pc = "done" /\ op = "Transmit"
      /\ (arg.Port = 0 \/ (arg.BufNull /\ arg.Length > 0)) )
    => (result = RAK3172_ERR_INVALID_ARG /\ sent = <<>> /\ ~ubRead)

\* The join command of this StartJoin call was accepted.
JoinAccepted ==
    /\ op = "StartJoin"
    /\ Len(sent) >= 1
    /\ sent[1].cmd = JoinCmd(arg)
    /\ sent[1].res = RAK3172_ERR_OK

\* C5: with Timeout T > 0, an accepted join command and a joined flag that
\* stays false, StartJoin returns Timeout, not before T seconds have passed
\* since the join command, after issuing the cancel-join command (whatever
\* its result), and the joined flag is still false.
C5_JoinTimeout ==
    ( /\ pc = "done" /\ JoinAccepted
      /\ arg.Timeout > 0
      /\ isJoined = FALSE )
    => /\ result = RAK3172_ERR_TIMEOUT
       /\ elapsed >= arg.Timeout * MsPerSecond
       /\ Len(sent) = 2
       /\ sent[2].cmd = CancelJoinCmd

\* C6: StartJoin with Timeout = 0 never returns Timeout and never issues the
\* cancel-join command; once the join command is accepted it returns only
\* with success and only with the joined flag true.
C6_JoinWaitsForever ==
    (JoinAccepted /\ arg.Timeout = 0)
    => /\ result # RAK3172_ERR_TIMEOUT
       /\ pc # "sj_stop"
       /\ \A i \in 1..Len(sent) : sent[i].cmd # CancelJoinCmd
       /\ (pc = "done" /\ JoinAccepted)
             => (result = RAK3172_ERR_OK /\ isJoined)

C6_Witness ==
    /\ pc = "done" /\ JoinAccepted
    /\ arg.Timeout = 0
    /\ startHi >= 1
    /\ iters >= 2
    /\ result = RAK3172_ERR_OK

\* C7: StartJoin invokes the caller's wait hook, when one is given, once in
\* every polling iteration.
C7_HookEveryIteration ==
    (op = "StartJoin" /\ arg.Wait) => hookCalls = iters

\* C8: StartJoin returns InvalidArgument without any command when
\* Attempts = 0; with Attempts >= 1 and the joined flag already true it is a
\* no-op success without any command; and when the join command fails it
\* returns that error without entering the wait loop.
C8_StartJoinEarlyExits ==
    [][ /\ (pc = "sj_entry" /\ pc' # pc /\ arg.Attempts = 0)
           => /\ pc' = "done" /\ result' = RAK3172_ERR_INVALID_ARG
              /\ sent' = <<>>
              /\ UNCHANGED <<isJoined, isBusy, modJoining, RxQueue>>
        /\ (pc = "sj_entry" /\ pc' # pc /\ arg.Attempts # 0 /\ isJoined)
           => /\ pc' = "done" /\ result' = RAK3172_ERR_OK
              /\ sent' = <<>>
              /\ UNCHANGED <<isJoined, isBusy, modJoining, RxQueue>>
        /\ (pc = "sj_send" /\ pc' # pc /\ sent'[1].res # RAK3172_ERR_OK)
           => /\ pc' = "done" /\ result' = sent'[1].res
              /\ Len(sent') = 1
              /\ iters' = 0 /\ hookCalls' = 0 /\ elapsed' = 0 ]_vars

C8_Witness ==
    /\ pc = "done" /\ op = "StartJoin"
    /\ arg.Attempts # 0
    /\ isJoined
    /\ sent = <<>>
    /\ result = RAK3172_ERR_OK

\* A confirmed Transmit whose send command was accepted without a busy
\* status: it waits for the confirmation.
ConfirmedWait ==
    /\ op = "Transmit" /\ arg.Confirmed
    /\ Len(sent) = 2
    /\ sent[2].res = RAK3172_ERR_OK
    /\ sent[2].status = STATUS_OK

ConfirmationLines == {EVT_CONFIRMED_OK, EVT_CONFIRMED_FAILED}

\* C9: a confirmed Transmit takes its result from the first line, in queue
\* order, that carries a confirmation marker: success for SEND CONFIRMED OK,
\* InvalidResponse for SEND CONFIRMED FAILED.  The lines taken before it
\* carry no marker and are discarded, and success is not returned before a
\* marker line was taken.
C9_ConfirmedResult ==
    [][ /\ ConfirmedWait' =>
           /\ \A i \in 1..(Len(consumed') - 1) :
                 consumed'[i] \notin ConfirmationLines
           /\ (consumed' # <<>> /\ Last(consumed') = EVT_CONFIRMED_OK)
                 => (pc' = "done" /\ result' = RAK3172_ERR_OK)
           /\ (consumed' # <<>> /\ Last(consumed') = EVT_CONFIRMED_FAILED)
                 => (pc' = "done" /\ result' = RAK3172_ERR_INVALID_RESPONSE)
           /\ (pc' = "done" /\ result' = RAK3172_ERR_OK)
                 => (consumed' # <<>> /\ Last(consumed') = EVT_CONFIRMED_OK)
           /\ (pc' = "done" /\ result' = RAK3172_ERR_INVALID_RESPONSE)
                 => (consumed' # <<>>
                     /\ Last(consumed') = EVT_CONFIRMED_FAILED)
        /\ (ConfirmedWait /\ ConfirmedWait' /\ consumed' # consumed)
           => /\ RxQueue # <<>>
              /\ consumed' = Append(consumed, Head(RxQueue))
              /\ RxQueue' = Tail(RxQueue) ]_vars

C9_Witness ==
    /\ pc = "done" /\ ConfirmedWait
    /\ result = RAK3172_ERR_OK
    /\ Len(consumed) >= 2

NoMarkerTaken == \A i \in 1..Len(consumed) : consumed[i] \notin ConfirmationLines

\* C10: a confirmed Transmit with Timeout > 0 returns in the end, with
\* Timeout when no confirmation marker was taken; with Timeout = 0 it never
\* returns Timeout and returns only on a confirmation marker.
C10_TimeoutOrForever ==
    /\ [](ConfirmedWait =>
            /\ (arg.Timeout = 0 => result # RAK3172_ERR_TIMEOUT)
            /\ (pc = "done" /\ arg.Timeout = 0) => ~NoMarkerTaken
            /\ (pc = "done" /\ NoMarkerTaken) => result = RAK3172_ERR_TIMEOUT)
    /\ (ConfirmedWait /\ arg.Timeout > 0) ~> (ConfirmedWait /\ pc = "done")

C10_Witness ==
    /\ pc = "done" /\ ConfirmedWait
    /\ arg.Timeout > 0
    /\ startHi = 0
    /\ NoMarkerTaken
    /\ elapsed >= arg.Timeout * MsPerSecond
    /\ result = RAK3172_ERR_TIMEOUT

\* An unconfirmed Transmit with a payload.
UnconfirmedSend ==
    /\ op = "Transmit"
    /\ arg.Confirmed = FALSE
    /\ arg.Length > 0 /\ arg.BufNull = FALSE

\* C11: an unconfirmed Transmit with a non-empty payload issues the
\* confirmation-mode command, then the send command, and returns success as
\* soon as the send command is accepted; it takes no line from the event
\* queue, never calls the wait hook, never enters the wait loop, and returns
\* Timeout only when a command itself timed out.
C11_UnconfirmedReturnsAtOnce ==
    UnconfirmedSend =>
       /\ consumed = <<>> /\ hookCalls = 0 /\ iters = 0
       /\ pc \notin {"tx_wait", "tx_check", "tx_sleep"}
       /\ Len(sent) <= 2
       /\ Len(sent) >= 1 => sent[1].cmd = CfmCmd(FALSE)
       /\ Len(sent) = 2 => (sent[1].res = RAK3172_ERR_OK
                            /\ sent[2].cmd = SendCmd(arg))
       /\ (Len(sent) = 2 /\ sent[2].res = RAK3172_ERR_OK
             /\ sent[2].status = STATUS_OK)
             => (pc = "done" /\ result = RAK3172_ERR_OK)
       /\ (pc = "done" /\ result = RAK3172_ERR_OK)
             => (Len(sent) = 2 /\ sent[2].res = RAK3172_ERR_OK)
       /\ result = RAK3172_ERR_TIMEOUT
             => (sent # <<>> /\ Last(sent).res = RAK3172_ERR_TIMEOUT)

C11_Witness ==
    /\ pc = "done" /\ UnconfirmedSend
    /\ arg.Wait /\ arg.Timeout > 0
    /\ RxQueue # <<>>
    /\ Len(sent) = 2
    /\ result = RAK3172_ERR_OK

\* The module answered the send command with the busy marker in its status.
BusyStatus ==
    /\ op = "Transmit"
    /\ \E i \in 1..Len(sent) :
          /\ sent[i].cmd = SendCmd(arg)
          /\ Contains(sent[i].status, AT_BUSY_ERROR)

SubBandBands == {RAK_BAND_US915, RAK_BAND_AU915, RAK_BAND_CN470}

\* GetSubBand has returned a sub band read back from the mask the module
\* stores.
SubBandReadBack ==
    /\ pc = "done"
    /\ op = "GetSubBand"
    /\ result = RAK3172_ERR_OK
    /\ modBand \in SubBandBands

\* C13: sub-band round trip.  On a band with sub bands, a successful
\* GetSubBand yields the sub band of the last accepted SetSubBand, the module
\* reporting back the mask text it was given.
C13_SubBandRoundTrip ==
    SubBandReadBack => out.SubBand = <<lastSub>>

\* SetSubBand has returned.
SetSubBandDone == pc = "done" /\ op = "SetSubBand"

\* The band query of this call was answered with a band without sub bands.
ReportedOtherBand ==
    /\ Len(sent) >= 1
    /\ sent[1].cmd = BandQuery
    /\ sent[1].res = RAK3172_ERR_OK
    /\ Stoi(sent[1].value).val \notin SubBandBands

\* C14: SetSubBand with sub band NONE returns success and issues no command;
\* with any other sub band, while the module reports a band outside US915,
\* AU915 and CN470, it returns Fail and issues no mask command.
C14_SetSubBandNoneOrFail ==
    SetSubBandDone =>
       /\ arg.Subband = RAK_SUB_BAND_NONE =>
             result = RAK3172_ERR_OK /\ sent = <<>>
       /\ (arg.Subband # RAK_SUB_BAND_NONE /\ ReportedOtherBand) =>
             /\ result = RAK3172_ERR_FAIL
             /\ \A i \in 1..Len(sent) : sent[i].cmd.name # "AT+MASK"

C14_Witness ==
    /\ SetSubBandDone
    /\ arg.Subband = RAK_SUB_BAND_12
    /\ ReportedOtherBand
    /\ result = RAK3172_ERR_FAIL

\* The band query of this call was answered with US915 or AU915.
ReportedEightSubBands ==
    /\ Len(sent) >= 1
    /\ sent[1].cmd = BandQuery
    /\ sent[1].res = RAK3172_ERR_OK
    /\ Stoi(sent[1].value).val \in {RAK_BAND_US915, RAK_BAND_AU915}

\* C15: sub bands 9, 10, 11 and 12 are accepted only for CN470.  For US915
\* and AU915 SetSubBand rejects each of them and issues no mask command.
C15_HighSubBandsOnlyCN470 ==
    (/\ SetSubBandDone
     /\ arg.Subband \in RAK_SUB_BAND_9..RAK_SUB_BAND_12
     /\ ReportedEightSubBands) =>
        /\ result = RAK3172_ERR_INVALID_ARG
        /\ \A i \in 1..Len(sent) : sent[i].cmd.name # "AT+MASK"

\* SetTxPwr has sent its AT+TXP command for the band the module reported.
TxPwrSent ==
    /\ pc = "done"
    /\ op = "SetTxPwr"
    /\ Len(sent) = 2
    /\ sent[2].cmd.name = "AT+TXP"

TxPwrBand == Stoi(sent[1].value).val
TxPwrSentIndex == sent[2].cmd.par[1]

\* The index the interface description gives for a band and a power.
TxPwrTable(b, p) ==
    IF b = RAK_BAND_EU868
    THEN IF p >= 16 THEN 0 ELSE IF p < 2 THEN 10 ELSE (16 - p) \div 2
    ELSE IF p >= 30 THEN 0 ELSE IF p < 10 THEN 10 ELSE (30 - p) \div 2

\* C16: transmit-power index.  For every requested power p in 0..255 the
\* index sent is, for EU868, 0 if p >= 16, 10 if p < 2, else (16 - p) div 2,
\* and for US915, 0 if p >= 30, 10 if p < 10, else (30 - p) div 2; it is
\* always in 0..10 and no larger power gets a larger index.
C16_TxPwrIndex ==
    TxPwrSent =>
       /\ TxPwrSentIndex \in 0..10
       /\ TxPwrBand \in {RAK_BAND_EU868, RAK_BAND_US915} =>
             /\ TxPwrSentIndex = TxPwrTable(TxPwrBand, arg.TxPwr)
             /\ \A q \in arg.TxPwr..UINT8_MAX :
                   SetTxPwr_Index(TxPwrBand, q) <= TxPwrSentIndex

C16_Witness ==
    /\ TxPwrSent
    /\ TxPwrBand = RAK_BAND_US915
    /\ arg.TxPwr = 15
    /\ TxPwrSentIndex = 7
    /\ result = RAK3172_ERR_OK

\* C18: whenever an operation returns InvalidArgument it has issued no
\* command to the transport during that call.
C18_InvalidArgumentBeforeIO ==
    (pc = "done" /\ result = RAK3172_ERR_INVALID_ARG) => sent = <<>>

\* Init was called with a null device, a class outside A, B, C or a null
\* key pointer.
InitBadArgs ==
    /\ op = "Init"
    /\ \/ arg.DevNull
       \/ arg.Class \notin {"A", "B", "C"}
       \/ arg.KeyNull # 0

\* C17: Initialize fails fast.  With a null device, a class outside A, B, C
\* or any null key pointer, its first step returns InvalidArgument with no
\* command issued and the device handle unchanged.
C17_InitFailsFast ==
    [][(pc = "in_entry" /\ InitBadArgs) =>
          /\ pc' = "done"
          /\ result' = RAK3172_ERR_INVALID_ARG
          /\ sent = <<>> /\ sent' = <<>>
          /\ UNCHANGED <<isJoined, isBusy, Join>>]_vars

C17_Witness ==
    /\ pc = "done"
    /\ InitBadArgs
    /\ arg.KeyNull = 2
    /\ result = RAK3172_ERR_INVALID_ARG
    /\ sent = <<>>

\* The names of the commands of a call, in the order issued.
SentNames == [i \in 1..Len(sent) |-> sent[i].cmd.name]

\* The steps of Initialize in the order of the interface description: mode,
\* cancel join, join status, class, ADR, band, sub band unless NONE (band
\* query, mask), retries (confirmation, count), power (band query, index),
\* join mode, and the three keys of the join mode.
InitOrder(a) ==
    <<"SetMode", "AT+JOIN", "AT+NJS=?", "AT+CLASS", "AT+ADR", "AT+BAND">>
    \o (IF a.Subband = RAK_SUB_BAND_NONE THEN <<>>
        ELSE <<"AT+BAND=?", "AT+MASK">>)
    \o <<"AT+CFM", "AT+RETY", "AT+BAND=?", "AT+TXP", "AT+NJM">>
    \o (IF a.JoinMode = RAK_JOIN_OTAA
        THEN <<"AT+DEVEUI", "AT+APPEUI", "AT+APPKEY">>
        ELSE <<"AT+APPSKEY", "AT+NWKSKEY", "AT+DEVADDR">>)

\* C19: Initialize issues its steps in a fixed order, and the first step
\* that fails ends the call with that step's error: what has been issued is
\* always a prefix of the order, nothing is issued after a failed step, a
\* failed step ends the call with its error, and success means every step
\* was issued.
C19_InitOrder ==
    op = "Init" =>
       /\ Len(sent) <= Len(InitOrder(arg))
       /\ SentNames = SubSeq(InitOrder(arg), 1, Len(sent))
       /\ \A i \in 1..(Len(sent) - 1) : sent[i].res = RAK3172_ERR_OK
       /\ (sent # <<>> /\ Last(sent).res # RAK3172_ERR_OK) =>
             pc = "done" /\ result = Last(sent).res
       /\ (pc = "done" /\ result = RAK3172_ERR_OK) =>
             Len(sent) = Len(InitOrder(arg))

C19_Witness ==
    /\ op = "Init"
    /\ pc = "done"
    /\ arg.Subband # RAK_SUB_BAND_NONE
    /\ Len(sent) = 13
    /\ Last(sent).cmd.name = "AT+NJM"
    /\ result = RAK3172_ERR_TIMEOUT

\* A key setter was called on its own, with no null argument.
KeySetterCall ==
    /\ op \in {"SetOTAAKeys", "SetABPKeys"}
    /\ ~arg.DevNull
    /\ arg.KeyNull = 0

\* The join mode a key setter is for, and its commands in order.
KeySetterMode ==
    IF op = "SetOTAAKeys" THEN RAK_JOIN_OTAA ELSE RAK_JOIN_ABP
KeySetterOrder ==
    IF op = "SetOTAAKeys"
    THEN <<"AT+DEVEUI", "AT+APPEUI", "AT+APPKEY">>
    ELSE <<"AT+APPSKEY", "AT+NWKSKEY", "AT+DEVADDR">>

\* C20: key provisioning respects the join mode.  SetOTAAKeys returns
\* InvalidState and issues no command unless the device's join mode is OTAA,
\* SetABPKeys likewise unless it is ABP; otherwise the three key commands go
\* out in order, and a failure of one stops the sequence with that error,
\* the earlier ones having been accepted by the module.
C20_KeysRespectJoinMode ==
    KeySetterCall =>
       /\ Join # KeySetterMode =>
             /\ sent = <<>>
             /\ pc = "done" => result = RAK3172_ERR_INVALID_STATE
       /\ Join = KeySetterMode =>
             /\ Len(sent) <= 3
             /\ SentNames = SubSeq(KeySetterOrder, 1, Len(sent))
             /\ \A i \in 1..(Len(sent) - 1) : sent[i].res = RAK3172_ERR_OK
             /\ (sent # <<>> /\ Last(sent).res # RAK3172_ERR_OK) => pc = "done"
             /\ pc = "done" =>
                   /\ sent # <<>>
                   /\ result = Last(sent).res
                   /\ result = RAK3172_ERR_OK => Len(sent) = 3

C20_Witness ==
    /\ KeySetterCall
    /\ op = "SetABPKeys"
    /\ Join = RAK_JOIN_ABP
    /\ pc = "done"
    /\ Len(sent) = 2
    /\ sent[1].res = RAK3172_ERR_OK
    /\ result = RAK3172_ERR_INVALID_RESPONSE

\* The step on which IsJoined returns success.
IsJoinedSucceeds ==
    /\ pc = "ij_query"
    /\ pc' = "done"
    /\ result' = RAK3172_ERR_OK

\* C21: after a successful IsJoined call the cached joined flag and the
\* returned value are equal, and both are true exactly when the module's
\* reply to the join-status query is the string "1".
C21_JoinedIsReply ==
    [][IsJoinedSucceeds =>
          /\ out'.Joined = <<isJoined'>>
          /\ isJoined' <=> (Last(sent').value = <<"1">>)]_vars

\* Receive takes a line from the event queue on this step.
ReceiveDequeues ==
    /\ op = "Receive"
    /\ pc = "rx_poll"
    /\ consumed' # consumed

\* The text after the last ':' of a line.
AfterLastColon(l) ==
    LET cs == {i \in 1..Len(l) : l[i] = ":"}
        k == IF cs = {} THEN 0 ELSE CHOOSE i \in cs : \A j \in cs : j <= i
    IN  SubSeq(l, k + 1, Len(l))

\* C22: Receive on a joined device returns success on the first dequeued
\* event line that contains the unicast-data marker, with the payload equal
\* to the text after that line's last ':'; lines dequeued before it that
\* contain neither marker are discarded and do not affect the result, and
\* lines are taken in event-queue order.
C22_ReceiveFirstUnicast ==
    [][/\ ReceiveDequeues =>
             /\ RxQueue # <<>>
             /\ consumed' = Append(consumed, Head(RxQueue))
             /\ RxQueue' = Tail(RxQueue)
             /\ Contains(Head(RxQueue), MARK_UNICAST) =>
                   /\ pc' = "done"
                   /\ result' = RAK3172_ERR_OK
                   /\ out'.Payload = <<AfterLastColon(Head(RxQueue))>>
             /\ (/\ ~Contains(Head(RxQueue), MARK_UNICAST)
                 /\ ~Contains(Head(RxQueue), MARK_RX)) =>
                   /\ pc' = "rx_delete"
                   /\ linePtr' = "valid"
                   /\ out' = out
       /\ (op = "Receive" /\ pc # "done" /\ pc' = "done"
              /\ result' = RAK3172_ERR_OK) =>
             /\ ReceiveDequeues
             /\ Contains(Last(consumed'), MARK_UNICAST)
             /\ \A i \in 1..Len(consumed) :
                   ~Contains(consumed[i], MARK_UNICAST)]_vars

C22_Witness ==
    /\ op = "Receive"
    /\ pc = "done"
    /\ result = RAK3172_ERR_OK
    /\ consumed = <<EVT_CONFIRMED_OK, EVT_UNICAST>>
    /\ out.Payload = <<<<"4", "8", "6", "5">>>>

\* The lines that have reached the call, taken or still queued.
Arrived == consumed \o RxQueue

\* Receive, asked for RSSI and SNR, has returned after the metadata line
\* of the example was dequeued first, with the unicast line right behind
\* it, and the wait was not cut short.
ExampleReceived ==
    /\ op = "Receive"
    /\ pc = "done"
    /\ result \notin {RAK3172_ERR_TIMEOUT, ABORT}
    /\ arg.WantRSSI /\ arg.WantSNR
    /\ consumed # <<>>
    /\ consumed[1] = EVT_RX_META
    /\ Len(Arrived) >= 2
    /\ Arrived[2] = EVT_UNICAST_HELLO

\* C23: Receive parsing.  Given the event line
\* "+EVT:RX:-42,10,RSSI -60,SNR 7" followed by "+EVT:UNICAST:48656C6C6F",
\* with RSSI and SNR requested, Receive returns success with RSSI = -60,
\* SNR = 7 and payload "48656C6C6F".
C23_ReceiveExample ==
    ExampleReceived =>
       /\ result = RAK3172_ERR_OK
       /\ out.RSSI = <<0 - 60>>
       /\ out.SNR = <<7>>
       /\ out.Payload = <<AfterLastColon(EVT_UNICAST_HELLO)>>

UpperHexChars == {HexDigits[i] : i \in 1..16}
LowerHexChars == {HexDigitsLower[i] : i \in 1..16}

\* The value of a hex character of either case.
HexValue(c) ==
    CHOOSE v \in 0..15 : HexDigits[v + 1] = c \/ HexDigitsLower[v + 1] = c

\* An encoding loop has run.
Encoded == pc = "done" /\ op \in EncodeOps

\* C24: hex encoding.  Every byte buffer of length L is encoded as exactly
\* 2L hex characters in input order without separators, in uppercase for
\* key material (OTAA keys, ABP keys, the P2P encryption key) and in
\* lowercase for transmit payloads.
C24_HexEncoding ==
    Encoded =>
       /\ Len(out.Hex) = 2 * Len(arg.Bytes)
       /\ \A i \in 1..Len(out.Hex) :
             out.Hex[i] \in UpperHexChars \cup LowerHexChars
       /\ \A i \in 1..Len(arg.Bytes) :
             16 * HexValue(out.Hex[2 * i - 1]) + HexValue(out.Hex[2 * i])
                = arg.Bytes[i]
       /\ \A i \in 1..Len(out.Hex) :
             IF op = "Payload" THEN out.Hex[i] \in LowerHexChars
             ELSE out.Hex[i] \in UpperHexChars

\* C25: no leak of event lines.  Every line that Transmit or Receive took
\* from the event queue has been released when the call returns, whatever
\* the outcome.
C25_NoLineLeak ==
    (pc = "done" /\ op \in {"Transmit", "Receive"}) => unreleased = 0

\* C26: in every polling iteration of Receive and of confirmed Transmit a
\* line buffer is released only if a line was dequeued in that iteration,
\* and no line is released more than once: no delete is applied to a
\* pointer that holds no line of this iteration, and never more lines are
\* released than were dequeued.
C26_ReleaseOnlyDequeued ==
    /\ ~ubFree
    /\ unreleased >= 0
    /\ pc = "rx_delete" => linePtr = "valid"

\* A wait of StartJoin, confirmed Transmit or Receive has ended with
\* Timeout (not a command of the call).
WaitTimedOut ==
    /\ pc = "done"
    /\ result = RAK3172_ERR_TIMEOUT
    /\ \/ op = "StartJoin" /\ JoinAccepted
       \/ op = "Transmit" /\ \A i \in 1..Len(sent) : sent[i].res = RAK3172_ERR_OK
       \/ op = "Receive"

\* C27: no premature timeout.  For every value of the millisecond clock at
\* the start of the wait, 2^32 ms and above included, StartJoin, confirmed
\* Transmit and Receive return Timeout only after at least the requested
\* number of seconds has elapsed since the wait began.
C27_NoPrematureTimeout ==
    WaitTimedOut => elapsed >= arg.Timeout * MsPerSecond

\* C28: with the line receiver setting the joined flag concurrently,
\* StartJoin decides to time out (and goes on to cancel the join) only if
\* the joined flag is false at that moment.
C28_TimeoutOnlyUnjoined ==
    [][(pc = "sj_check" /\ pc' = "sj_stop") => isJoined = FALSE]_vars

\* Receive was called with valid arguments on a joined device and has
\* returned.
ReceiveReturned ==
    /\ pc = "done"
    /\ op = "Receive"
    /\ ~arg.OutNull
    /\ arg.Timeout >= 2
    /\ result # RAK3172_ERR_NOT_CONNECTED

\* C29: Receive always terminates.  With valid arguments (Timeout >= 2) on
\* a joined device every call returns either success or Timeout, whatever
\* event lines arrive; a Timeout of 0 or 1 is rejected with
\* InvalidArgument.
C29_ReceiveReturns ==
    /\ ReceiveReturned =>
          result \in {RAK3172_ERR_OK, RAK3172_ERR_TIMEOUT}
    /\ (pc = "done" /\ op = "Receive" /\ arg.Timeout <= 1) =>
          result = RAK3172_ERR_INVALID_ARG

\* The step on which IsJoined returns after having sent its query.
IsJoinedReturns == pc = "ij_query" /\ pc' = "done"

\* C30: the cached joined flag is true after IsJoined only if that call's
\* query succeeded with reply "1"; a failed query leaves the flag false,
\* even if it was true before the call, and leaves the caller's output
\* untouched.
C30_FlagOnlyFromReply ==
    [][IsJoinedReturns =>
          /\ isJoined' =>
                /\ result' = RAK3172_ERR_OK
                /\ Last(sent').value = <<"1">>
          /\ result' # RAK3172_ERR_OK =>
                /\ isJoined' = FALSE
                /\ out'.Joined = out.Joined]_vars

====
